---- MODULE Spec2Model ----
(***************************************************************************)
(* Playback session of the audiobook player (Player in player.js), the     *)
(* media element it drives, and the page glue of main.js.                  *)
(*                                                                         *)
(* Handlers are operators on a record s of the session state; an action    *)
(* applies one handler (with every call it makes) and commits the result.  *)
(* The media element is the platform part: its operations (pause, play,    *)
(* the load algorithm run by `src = ...` and load()) follow the HTML media *)
(* element algorithms, its events are tasks delivered by separate actions. *)
(***************************************************************************)
EXTENDS Integers, Sequences, FiniteSets, TLC

\* ---- bounds of the model
NumChapters == 2      \* audio files in the manifest of the opened item
Duration == 4         \* length of every chapter, in seconds
MaxErrors == 3        \* media errors counted before the model stops injecting them
MaxPolls == 1         \* outstanding playWhenReady timers
MaxTasks == 2         \* queued media element tasks
MaxResume == 1        \* playPause calls suspended at `await visualizer.resume()`
MaxFiles == 3         \* files of a generated manifest
NumShows == 6         \* distinct identifiers given to updateRecentlyViewed
MaxDestroy == 2       \* calls of destroy
VolumeSteps == 2      \* positions of the volume slider above 0
MaxResultPages == 2   \* result pages of a search
MaxInFlight == 2      \* calls of searchShows waiting for their response
MaxSearches == 4      \* calls of searchShows on one visit of the search page
MaxVisited == 3       \* distinct books opened across visits

\* ---- program constants
maxConsecutiveErrors == 3
RestartThreshold == 3
MaxRecent == 5
defaultPlaybackRate == 100
MAX_RETRIES == 3
RETRY_DELAY == 1000

VARIABLES
    pc,                 \* "new" | "ready" | "failed": position of initializePlayerPage
    playlist,           \* Player.playlist: sequence of chapters
    originalPlaylist,   \* Player.originalPlaylist
    currentIndex,       \* Player.currentIndex (0-based, as in the code)
    isShuffled,         \* Player.isShuffled
    loopMode,           \* Player.loopMode
    playerState,        \* Player.playerState
    isLoadingTrack,     \* Player.isLoadingTrack
    consecutiveErrors,  \* Player.consecutiveErrors
    resumeWait,         \* playPause calls suspended at `await visualizer.resume()`
    polls,              \* outstanding playWhenReady timers, per kind
    audio,              \* the media element: src, paused, readyState, error, currentTime,
                        \*   queued tasks, pending play promises
    lastVolume,         \* this.lastVolume, in hundredths
    playbackRate,       \* this.playbackRate, in hundredths
    notice,             \* the messages of the last step: toasts, error panels and
                        \*   the console line of a dropped loadTrack
    manifestOrder,      \* history: the playlist as built by initialize
    errorRun,           \* history: media error events since the last 'playing' event
    manifest,           \* input of OpenSpec: data.files of the fetched metadata
    startIndex,         \* input of OpenSpec: the start index given to initialize
    localStorage,       \* the value stored under tapeFinder_recentlyViewed
    storeReady,         \* a StorageManager has been constructed
    lastAdded,          \* history: the identifier of the last entry added (0: none)
    webAudio,           \* input: how far visualizer.initialize gets on this page
    visualizer,         \* the Visualizer's fields
    destroyCalls,       \* calls of destroy made so far
    threw,              \* a call of destroy threw
    urlTrack,           \* the track parameter of the page's URL (-1: none or not a number)
    wrapped,            \* the page has replaced player.loadTrack by its URL-updating wrapper
    buttons,            \* prevButton.disabled and nextButton.disabled
    searchPc,           \* the search page: "none", "loaded" or "open" (handlers bound)
    form, activeFilters, currentPage, totalResults, currentResults,
    isLoadingMore, lastSearchParams, calls, resultsDiv,
    searches            \* calls of searchShows made so far

sessionVars == <<pc, playlist, originalPlaylist, currentIndex, isShuffled, loopMode,
                 playerState, isLoadingTrack, consecutiveErrors, resumeWait, polls, audio,
                 lastVolume, playbackRate, notice, manifestOrder, errorRun>>
pageVars == <<manifest, startIndex>>
storeVars == <<localStorage, storeReady, lastAdded>>
unloadVars == <<webAudio, destroyCalls, threw>>

urlVars == <<urlTrack, wrapped, buttons>>

searchVars == <<searchPc, form, activeFilters, currentPage, totalResults, currentResults,
                isLoadingMore, lastSearchParams, calls, resultsDiv, searches>>

\* the variables of the player page and of the store
otherVars == <<sessionVars, pageVars, storeVars, visualizer, unloadVars, urlVars>>

vars == <<otherVars, searchVars>>

\* ------------------------------------------------------------------------
\* Strings are sequences of characters, so that toLowerCase, includes and
\* endsWith are computed as the code computes them.

UpperChars == <<"A","B","C","D","E","F","G","H","I","J","K","L","M",
                "N","O","P","Q","R","S","T","U","V","W","X","Y","Z">>
LowerChars == <<"a","b","c","d","e","f","g","h","i","j","k","l","m",
                "n","o","p","q","r","s","t","u","v","w","x","y","z">>

LowerChar(c) ==
    IF \E i \in 1..Len(UpperChars) : UpperChars[i] = c
    THEN LowerChars[CHOOSE i \in 1..Len(UpperChars) : UpperChars[i] = c]
    ELSE c

toLowerCase(str) == [i \in 1..Len(str) |-> LowerChar(str[i])]

includes(str, needle) ==
    \E k \in 0..(Len(str) - Len(needle)) :
        \A j \in 1..Len(needle) : str[k + j] = needle[j]

endsWith(str, suffix) ==
    /\ Len(suffix) <= Len(str)
    /\ \A j \in 1..Len(suffix) : str[Len(str) - Len(suffix) + j] = suffix[j]

nonAudioExtensions ==
    { <<".","z","i","p">>, <<".","t","x","t">>, <<".","p","d","f">>, <<".","x","m","l">>,
      <<".","j","p","g">>, <<".","j","p","e","g">>, <<".","p","n","g">>, <<".","g","i","f">>,
      <<".","m","3","u">>, <<".","m","d","5">>, <<".","s","q","l","i","t","e">>,
      <<".","t","o","r","r","e","n","t">>, <<".","h","t","m","l">>, <<".","h","t","m">>,
      <<".","j","s","o","n">>, <<".","s","h">>, <<".","a","s","c">>, <<".","m","e","t","a">> }

\* mutant: the audio filter without its check of the original field
isAudioFile_IgnoreOriginal(f) ==
    IF f.name = <<>> \/ f.format = <<>> THEN FALSE
    ELSE
        LET format == toLowerCase(f.format)
            name == toLowerCase(f.name)
        IN /\ \/ includes(format, <<"m","p","3">>)
              \/ includes(format, <<"o","g","g">>)
              \/ includes(format, <<"v","o","r","b","i","s">>)
              \/ includes(format, <<"m","p","e","g">>)
           /\ ~\E ext \in nonAudioExtensions : endsWith(name, ext)

\* A manifest file: name, format, original and title are strings; <<>> is "absent".
isAudioFile(f) ==
    IF f.name = <<>> \/ f.format = <<>> THEN FALSE
    ELSE
        LET format == toLowerCase(f.format)
            name == toLowerCase(f.name)
            isAudioFormat == \/ includes(format, <<"m","p","3">>)
                             \/ includes(format, <<"o","g","g">>)
                             \/ includes(format, <<"v","o","r","b","i","s">>)
                             \/ includes(format, <<"m","p","e","g">>)
            hasNonAudioExtension == \E ext \in nonAudioExtensions : endsWith(name, ext)
            originalFormat == IF f.original # <<>> THEN toLowerCase(f.original) ELSE <<>>
            isOriginalAudio == \/ originalFormat = <<>>
                               \/ includes(originalFormat, <<"m","p","3">>)
                               \/ includes(originalFormat, <<"a","u","d","i","o">>)
        IN isAudioFormat /\ ~hasNonAudioExtension /\ isOriginalAudio

RECURSIVE audioFilter(_)
audioFilter(files) ==
    IF files = <<>> THEN <<>>
    ELSE (IF isAudioFile(Head(files)) THEN <<Head(files)>> ELSE <<>>)
         \o audioFilter(Tail(files))

\* name.replace(/\.(mp3|ogg)$/i, '')
stripAudioExt(name) ==
    IF \/ endsWith(toLowerCase(name), <<".","m","p","3">>)
       \/ endsWith(toLowerCase(name), <<".","o","g","g">>)
    THEN SubSeq(name, 1, Len(name) - 4)
    ELSE name

\* audioFiles.map(f => ({title, url})): the url is the download path of the
\* file name under the item; encodeURIComponent is injective, so the url is
\* modelled as the file name under its download prefix.
toChapter(f) ==
    [ title |-> IF f.title # <<>> THEN f.title ELSE stripAudioExt(f.name),
      url   |-> <<"/">> \o f.name ]

\* mutant: a playlist built in the reverse of the manifest order
buildPlaylist_Reversed(files) ==
    [i \in 1..Len(audioFilter(files)) |->
        toChapter(audioFilter(files)[Len(audioFilter(files)) + 1 - i])]

buildPlaylist(files) == [i \in 1..Len(audioFilter(files)) |-> toChapter(audioFilter(files)[i])]

\* ---- the manifests the model opens
Digits == <<"1","2","3","4","5","6","7","8","9">>

File(name, format) == [name |-> name, format |-> format, original |-> <<>>, title |-> <<>>]

CoverFile == File(<<"c","o","v","e","r",".","j","p","g">>, <<"J","P","E","G">>)
ChecksumFile == File(<<"c","h","e","c","k","s","u","m","s",".","m","d","5">>,
                     <<"C","h","e","c","k","s","u","m","s">>)
ChapterFile(i) == File(<<"0", Digits[i], ".","m","p","3">>, <<"V","B","R"," ","M","P","3">>)

AudioManifest == <<CoverFile>> \o [i \in 1..NumChapters |-> ChapterFile(i)] \o <<ChecksumFile>>
EmptyManifest == <<CoverFile, ChecksumFile>>
Manifests == {AudioManifest, EmptyManifest}

\* ---- generated manifests: the file at position i is of one of these kinds
FileFrom(name, format, original) ==
    [name |-> name, format |-> format, original |-> original, title |-> <<>>]

Mp3Format == <<"V","B","R"," ","M","P","3">>
NamedAt(i, ext) == <<"0", Digits[i]>> \o ext

FileKinds == 1..9
FileOfKind(k, i) ==
    CASE k = 1 -> FileFrom(NamedAt(i, <<".","m","p","3">>), Mp3Format, <<>>)
      [] k = 2 -> FileFrom(NamedAt(i, <<".","o","g","g">>),
                           <<"O","g","g"," ","V","o","r","b","i","s">>, <<>>)
      [] k = 3 -> FileFrom(NamedAt(i, <<".","j","p","g">>), <<"J","P","E","G">>, <<>>)
      [] k = 4 -> FileFrom(NamedAt(i, <<".","m","d","5">>),
                           <<"C","h","e","c","k","s","u","m","s">>, <<>>)
      [] k = 5 -> FileFrom(NamedAt(i, <<".","M","3","U">>), <<"M","P","3"," ","M","3","U">>, <<>>)
      [] k = 6 -> FileFrom(NamedAt(i, <<".","m","p","3">>), Mp3Format,
                           NamedAt(i, <<".","f","l","a","c">>))
      [] k = 7 -> FileFrom(NamedAt(i, <<".","m","p","3">>), Mp3Format,
                           NamedAt(i, <<".","M","P","3">>))
      [] k = 8 -> FileFrom(NamedAt(i, <<".","M","P","3">>),
                           <<"6","4","K","b","p","s"," ","M","P","E","G">>, <<>>)
      [] k = 9 -> FileFrom(NamedAt(i, <<".","m","p","3">>), <<>>, <<>>)

GeneratedManifests ==
    { [i \in 1..Len(kinds) |-> FileOfKind(kinds[i], i)] :
        kinds \in UNION { [1..m -> FileKinds] : m \in 0..MaxFiles } }


\* ------------------------------------------------------------------------
\* The media element (HTMLMediaElement), as the HTML standard defines the
\* operations the player calls.  audio is a record:
\*   src, hasSrc   the src attribute (<<>> is the empty string) and its presence
\*   paused        the paused attribute
\*   ready         "nothing" (HAVE_NOTHING), "current" (stalled: at most
\*                 HAVE_CURRENT_DATA), "enough" (HAVE_FUTURE_DATA or more)
\*   error         "none", "src" (MEDIA_ERR_SRC_NOT_SUPPORTED), "fatal" (network/decode)
\*   time          currentTime
\*   tasks         queued media element tasks [ev, who, outcome]: the event to
\*                 fire and the play promises the task settles
\*   promises      pending play promises, by the reaction waiting on them
\* s.micro is the list of promise reactions to run when the handler returns.

PromiseKinds == {"playPause", "next", "prev", "select"}

NewAudio == [src |-> <<>>, hasSrc |-> FALSE, paused |-> TRUE, ready |-> "nothing",
             error |-> "none", time |-> 0, tasks |-> <<>>, promises |-> {},
             volume |-> 100, playbackRate |-> defaultPlaybackRate]

Settled(who, outcome) == IF who = {} THEN <<>> ELSE <<[who |-> who, outcome |-> outcome]>>

RECURSIVE SettledTasks(_)
SettledTasks(tasks) ==
    IF tasks = <<>> THEN <<>>
    ELSE Settled(Head(tasks).who, Head(tasks).outcome) \o SettledTasks(Tail(tasks))

\* audio.pause()
audioPause(s) ==
    IF s.audio.paused THEN s
    ELSE [s EXCEPT !.audio.paused = TRUE,
                   !.audio.tasks = Append(@, [ev |-> "pause", who |-> s.audio.promises,
                                              outcome |-> "AbortError"]),
                   !.audio.promises = {}]

\* mutant: a load algorithm that leaves the queued tasks of the old source
audioLoadAlgorithm_KeepTasks(s, value) ==
    LET a == s.audio
    IN [s EXCEPT
          !.micro = @ \o (IF a.paused THEN <<>> ELSE Settled(a.promises, "AbortError")),
          !.audio = [src |-> value, hasSrc |-> TRUE, paused |-> TRUE, ready |-> "nothing",
                     error |-> "none", time |-> 0, tasks |-> a.tasks,
                     promises |-> IF a.paused THEN a.promises ELSE {},
                     volume |-> a.volume, playbackRate |-> defaultPlaybackRate]]

\* The media element load algorithm, run by `audio.src = value` and by
\* audio.load(): queued tasks are removed (their promises settled at once),
\* playback is paused and pending play promises rejected, the position, the
\* ready state, the error and the playback rate are reset, and the resource
\* selection starts. The volume is kept.
audioLoadAlgorithm(s, value) ==
    LET a == s.audio
    IN [s EXCEPT
          !.micro = @ \o SettledTasks(a.tasks)
                      \o (IF a.paused THEN <<>> ELSE Settled(a.promises, "AbortError")),
          !.audio = [src |-> value, hasSrc |-> TRUE, paused |-> TRUE, ready |-> "nothing",
                     error |-> "none", time |-> 0, tasks |-> <<>>,
                     promises |-> IF a.paused THEN a.promises ELSE {},
                     volume |-> a.volume, playbackRate |-> defaultPlaybackRate]]

audioSetSrc(s, value) == audioLoadAlgorithm(s, value)
audioLoad(s) == audioLoadAlgorithm(s, s.audio.src)

\* audio.play(): who is the set of reactions waiting on the returned promise,
\* allowed is the autoplay policy's answer.
audioPlay(s, who, allowed) ==
    LET a == s.audio
    IN IF ~allowed THEN [s EXCEPT !.micro = @ \o Settled(who, "NotAllowedError")]
       ELSE IF a.error = "src" THEN [s EXCEPT !.micro = @ \o Settled(who, "NotSupportedError")]
       ELSE LET pending == a.promises \cup who
            IN IF a.paused
               THEN IF a.ready = "enough"
                    THEN [s EXCEPT !.audio.paused = FALSE,
                                   !.audio.time = IF a.time = Duration THEN 0 ELSE a.time,
                                   !.audio.promises = {},
                                   !.audio.tasks = Append(@, [ev |-> "playing", who |-> pending,
                                                              outcome |-> "resolved"])]
                    ELSE [s EXCEPT !.audio.paused = FALSE,
                                   !.audio.promises = pending,
                                   !.audio.tasks = Append(@, [ev |-> "waiting", who |-> {},
                                                              outcome |-> "resolved"])]
               ELSE IF a.ready = "enough"
                    THEN [s EXCEPT !.audio.promises = {},
                                   !.audio.tasks = Append(@, [ev |-> "none", who |-> pending,
                                                              outcome |-> "resolved"])]
                    ELSE [s EXCEPT !.audio.promises = pending]

\* ------------------------------------------------------------------------
\* Player

\* Messages: "toast:<m>" is showToast, "panel:<m>" is showPlayerError (the
\* blocking error panel), "log:<m>" is console.log.
\*   toast:wait            'Please wait...'
\*   toast:mediaError      the message of the media error code
\*   toast:playHint        'Click play button to start playback'
\*   toast:playFailed      'Playback failed. Try another chapter.'
\*   toast:clickPlay       'Click play to start'
\*   panel:multipleFailed  '... Multiple chapters failed to load. ...'
\*   panel:invalidChapter  'Invalid chapter or missing URL'
\*   panel:initError       Player.showError / showPlayerInitError
\*   log:alreadyLoading    'Already loading a chapter, please wait'
showToast(s, message) == [s EXCEPT !.notice = @ \cup {message}]
showPlayerError(s, message) == [s EXCEPT !.notice = @ \cup {message}]
consoleLog(s, message) == [s EXCEPT !.notice = @ \cup {message}]

updateState(s, state) == [s EXCEPT !.playerState = state]

\* the 'playing' listener of setupUI
onPlaying(s) ==
    [updateState(s, "playing") EXCEPT !.consecutiveErrors = 0, !.isLoadingTrack = FALSE]

\* the 'canplay' listener of setupUI
onCanPlay(s) == [s EXCEPT !.isLoadingTrack = FALSE]

\* mutant: the panel only from the 4th error in a row
handleAudioError_OffByOne(s) ==
    LET s1 == [s EXCEPT !.consecutiveErrors = @ + 1, !.isLoadingTrack = FALSE]
    IN IF s1.audio.error = "none" THEN s1
       ELSE IF s1.consecutiveErrors > maxConsecutiveErrors
            THEN showPlayerError(s1, "panel:multipleFailed")
            ELSE showToast(s1, "toast:mediaError")

handleAudioError(s) ==
    LET s1 == [s EXCEPT !.consecutiveErrors = @ + 1, !.isLoadingTrack = FALSE]
    IN IF s1.audio.error = "none" THEN s1
       ELSE IF s1.consecutiveErrors >= maxConsecutiveErrors
            THEN showPlayerError(s1, "panel:multipleFailed")
            ELSE showToast(s1, "toast:mediaError")

\* this.playlist[index] is a track with a url
validTrack(s, index) ==
    /\ index \in 0..(Len(s.playlist) - 1)
    /\ s.playlist[index + 1].url # <<>>

loadTrack(s, index) ==
    IF s.isLoadingTrack THEN consoleLog(s, "log:alreadyLoading")
    ELSE IF ~validTrack(s, index) THEN showPlayerError(s, "panel:invalidChapter")
    ELSE LET s1 == [s EXCEPT !.isLoadingTrack = TRUE,
                             !.currentIndex = index,
                             !.playerState = "loading"]
             s2 == audioLoad(audioSetSrc(audioPause(s1), <<>>))
             s3 == audioSetSrc(s2, s1.playlist[index + 1].url)
         IN audioLoad([s3 EXCEPT !.audio.playbackRate = s3.playbackRate,
                                 !.audio.volume = s3.lastVolume])

\* mutant: a failed play attempt of playPause counted as a media error
playReaction_CountsError(s, who, outcome) ==
    IF outcome = "resolved"
    THEN [s EXCEPT !.playerState = "playing"]
    ELSE LET s1 == IF "playPause" \in who
                   THEN showToast([s EXCEPT !.playerState = "paused",
                                            !.consecutiveErrors = @ + 1],
                                  IF outcome = "NotAllowedError" THEN "toast:playHint"
                                  ELSE "toast:playFailed")
                   ELSE s
         IN IF "select" \in who /\ outcome # "AbortError"
            THEN showToast(s1, "toast:clickPlay")
            ELSE s1

\* the reaction to a settled play promise: the code after `await promise` in
\* playPause, and the then/catch of playWhenReady
playReaction(s, who, outcome) ==
    IF outcome = "resolved"
    THEN [s EXCEPT !.playerState = "playing"]
    ELSE LET s1 == IF "playPause" \in who
                   THEN showToast([s EXCEPT !.playerState = "paused"],
                                  IF outcome = "NotAllowedError" THEN "toast:playHint"
                                  ELSE "toast:playFailed")
                   ELSE s
         IN IF "select" \in who /\ outcome # "AbortError"
            THEN showToast(s1, "toast:clickPlay")
            ELSE s1

RECURSIVE runReactions(_)
runReactions(s) ==
    IF s.micro = <<>> THEN s
    ELSE runReactions(playReaction([s EXCEPT !.micro = Tail(@)],
                                   Head(s.micro).who, Head(s.micro).outcome))

\* playPause after `await this.visualizer.resume()`
playPauseBody(s, allowed) ==
    IF s.playerState = "playing"
    THEN [audioPause(s) EXCEPT !.playerState = "paused"]
    ELSE audioPlay(s, {"playPause"}, allowed)

\* playPause up to its first await
playPause(s) == [s EXCEPT !.resumeWait = @ + 1]

detach(s) == audioLoad(audioSetSrc(audioPause(s), <<>>))

schedulePoll(s, kind) == [s EXCEPT !.polls[kind] = @ + 1]

\* mutant: nextTrack that never wraps from the last index to index 0
nextTrackBody_NoWrap(s, r) ==
    LET s1 == detach(s)
    IN IF s1.isShuffled
       THEN schedulePoll(loadTrack([s1 EXCEPT !.currentIndex = r], r), "next")
       ELSE IF s1.currentIndex < Len(s1.playlist) - 1
       THEN schedulePoll(loadTrack([s1 EXCEPT !.currentIndex = @ + 1],
                                   s1.currentIndex + 1), "next")
       ELSE s1

\* r is the value of Math.floor(Math.random() * this.playlist.length)
\* nextTrack past its re-entrancy guard
nextTrackBody(s, r) ==
    LET s1 == detach(s)
        last == Len(s1.playlist) - 1
    IN IF s1.isShuffled
       THEN schedulePoll(loadTrack([s1 EXCEPT !.currentIndex = r], r), "next")
       ELSE IF s1.currentIndex < last
       THEN schedulePoll(loadTrack([s1 EXCEPT !.currentIndex = @ + 1],
                                   s1.currentIndex + 1), "next")
       ELSE IF s1.loopMode = "all"
       THEN schedulePoll(loadTrack([s1 EXCEPT !.currentIndex = 0], 0), "next")
       ELSE s1

\* mutant: nextTrack without its re-entrancy guard
nextTrack_NoGuard(s, r) == nextTrackBody(s, r)

nextTrack(s, r) == IF s.isLoadingTrack THEN s ELSE nextTrackBody(s, r)

\* mutant: prevTrack that never wraps from index 0 to the last index
prevTrackBody_NoWrap(s, r) ==
    LET s1 == detach(s)
    IN IF s1.isShuffled
       THEN schedulePoll(loadTrack([s1 EXCEPT !.currentIndex = r], r), "prev")
       ELSE IF s1.currentIndex > 0
       THEN schedulePoll(loadTrack([s1 EXCEPT !.currentIndex = @ - 1],
                                   s1.currentIndex - 1), "prev")
       ELSE s1

\* prevTrack past its re-entrancy guard: the position is read after the
\* source has been detached
prevTrackBody(s, r) ==
    LET s1 == detach(s)
        last == Len(s1.playlist) - 1
    IN IF s1.audio.time > RestartThreshold
       THEN [s1 EXCEPT !.audio.time = 0]
       ELSE IF s1.isShuffled
       THEN schedulePoll(loadTrack([s1 EXCEPT !.currentIndex = r], r), "prev")
       ELSE IF s1.currentIndex > 0
       THEN schedulePoll(loadTrack([s1 EXCEPT !.currentIndex = @ - 1],
                                   s1.currentIndex - 1), "prev")
       ELSE IF s1.loopMode = "all"
       THEN schedulePoll(loadTrack([s1 EXCEPT !.currentIndex = last], last), "prev")
       ELSE s1

prevTrack(s, r) == IF s.isLoadingTrack THEN s ELSE prevTrackBody(s, r)

\* mutant: selectTrack that reloads the current chapter instead of toggling
selectTrack_AlwaysLoad(s, index) ==
    IF s.isLoadingTrack THEN showToast(s, "toast:wait")
    ELSE schedulePoll(loadTrack(detach(s), index), "select")

selectTrack(s, index) ==
    IF s.isLoadingTrack THEN showToast(s, "toast:wait")
    ELSE IF index = s.currentIndex /\ ~s.isLoadingTrack THEN playPause(s)
    ELSE schedulePoll(loadTrack(detach(s), index), "select")

\* mutant: playWhenReady that does not look at the load flag
playWhenReady_NoWait(s, kind, allowed) ==
    audioPlay([s EXCEPT !.polls[kind] = @ - 1], {kind}, allowed)

\* one firing of a playWhenReady timer
playWhenReady(s, kind, allowed) ==
    IF ~s.isLoadingTrack
    THEN audioPlay([s EXCEPT !.polls[kind] = @ - 1], {kind}, allowed)
    ELSE s

\* mutant: handleTrackEnd that does not look at loopMode 'all'
handleTrackEnd_NoLoopAll(s, r, allowed) ==
    IF s.loopMode = "one"
    THEN audioPlay([s EXCEPT !.audio.time = 0], {}, allowed)
    ELSE IF s.isShuffled \/ s.currentIndex < Len(s.playlist) - 1
    THEN nextTrack(s, r)
    ELSE [s EXCEPT !.playerState = "paused"]

\* mutant: handleTrackEnd that calls nextTrack at the end of the playlist too
handleTrackEnd_AlwaysNext(s, r, allowed) ==
    IF s.loopMode = "one"
    THEN audioPlay([s EXCEPT !.audio.time = 0], {}, allowed)
    ELSE nextTrack(s, r)

\* mutant: handleTrackEnd that treats loopMode 'one' as 'none'
handleTrackEnd_IgnoreLoopOne(s, r, allowed) ==
    IF \/ s.loopMode = "all"
       \/ s.isShuffled
       \/ s.currentIndex < Len(s.playlist) - 1
    THEN nextTrack(s, r)
    ELSE [s EXCEPT !.playerState = "paused"]

handleTrackEnd(s, r, allowed) ==
    IF s.loopMode = "one"
    THEN audioPlay([s EXCEPT !.audio.time = 0], {}, allowed)
    ELSE IF \/ s.loopMode = "all"
            \/ s.isShuffled
            \/ s.currentIndex < Len(s.playlist) - 1
    THEN nextTrack(s, r)
    ELSE [s EXCEPT !.playerState = "paused"]


\* shuffleArray: Fisher-Yates from the last position down; rnd[i] is the value
\* of Math.floor(Math.random() * (i + 1)) drawn at (0-based) position i.
swap(arr, i, j) == [arr EXCEPT ![i] = arr[j], ![j] = arr[i]]

RECURSIVE shuffleFrom(_, _, _)
shuffleFrom(arr, i, rnd) ==
    IF i <= 0 THEN arr
    ELSE shuffleFrom(swap(arr, i + 1, rnd[i] + 1), i - 1, rnd)

shuffleArray(array, rnd) == shuffleFrom(array, Len(array) - 1, rnd)

RandomDraws(n) == { rnd \in [1..(n - 1) -> 0..(n - 1)] : \A i \in 1..(n - 1) : rnd[i] <= i }

\* Array.prototype.findIndex on the url: the first match, -1 when there is none
findIndex(list, url) ==
    IF \E i \in 1..Len(list) : list[i].url = url
    THEN (CHOOSE i \in 1..Len(list) :
              /\ list[i].url = url
              /\ \A j \in 1..(i - 1) : list[j].url # url) - 1
    ELSE -1

\* mutant: toggleShuffle that keeps the old currentIndex
toggleShuffle_KeepIndex(s, rnd) ==
    LET shuffled == ~s.isShuffled
    IN [s EXCEPT !.isShuffled = shuffled,
                 !.playlist = IF shuffled THEN shuffleArray(s.playlist, rnd)
                              ELSE s.originalPlaylist]

\* mutant: toggleShuffle that shuffles the array it was given, which
\* originalPlaylist then shares
toggleShuffle_InPlace(s, rnd) ==
    LET shuffled == ~s.isShuffled
        current == s.playlist[s.currentIndex + 1]
        list == IF shuffled THEN shuffleArray(s.playlist, rnd) ELSE s.originalPlaylist
    IN [s EXCEPT !.isShuffled = shuffled,
                 !.playlist = list,
                 !.originalPlaylist = list,
                 !.currentIndex = findIndex(list, current.url)]

toggleShuffle(s, rnd) ==
    LET shuffled == ~s.isShuffled
        current == s.playlist[s.currentIndex + 1]
        list == IF shuffled THEN shuffleArray(s.playlist, rnd) ELSE s.originalPlaylist
    IN [s EXCEPT !.isShuffled = shuffled,
                 !.playlist = list,
                 !.currentIndex = findIndex(list, current.url)]

modes == <<"none", "one", "all">>

indexOf(seq, x) == IF \E i \in 1..Len(seq) : seq[i] = x
                   THEN (CHOOSE i \in 1..Len(seq) : seq[i] = x) - 1
                   ELSE -1

\* mutant: toggleLoop that steps two modes forward
toggleLoop_Skip(s) == [s EXCEPT !.loopMode = modes[((indexOf(modes, s.loopMode) + 2) % 3) + 1]]

toggleLoop(s) == [s EXCEPT !.loopMode = modes[((indexOf(modes, s.loopMode) + 1) % 3) + 1]]

\* seekTrack on a slider value that maps to position t; the duration is NaN
\* until the resource has loaded
seekTrack(s, t) == IF s.audio.ready = "nothing" THEN s ELSE [s EXCEPT !.audio.time = t]

\* toggleMute: silence the element and remember its volume, or give it the
\* remembered volume back
toggleMute(s) ==
    IF s.audio.volume > 0
    THEN [s EXCEPT !.lastVolume = s.audio.volume, !.audio.volume = 0]
    ELSE [s EXCEPT !.audio.volume = s.lastVolume]

\* handleVolumeChange: value is the slider's position, 0..100; the volume is
\* value / 100, kept here in hundredths
handleVolumeChange(s, value) == [s EXCEPT !.audio.volume = value, !.lastVolume = value]

\* window.retryCurrentTrack
retryCurrentTrack(s) == playPause(loadTrack(s, s.currentIndex))

\* initializePlayerPage: trackParam is parseInt of the track parameter (-1: NaN)
startTrackOf(trackParam) == IF trackParam > 0 THEN trackParam - 1 ELSE 0

\* mutant: initialize that takes the start index without its range check
initialize_NoRangeCheck(s, files, startTrack) ==
    LET list == buildPlaylist(files)
        s1 == [s EXCEPT !.playlist = list,
                        !.originalPlaylist = list,
                        !.currentIndex = startTrack]
    IN playPause(loadTrack(s1, s1.currentIndex))

\* Player.initialize on a fetched manifest, then the page's first playPause
initialize(s, files, startTrack) ==
    LET list == buildPlaylist(files)
        s1 == [s EXCEPT !.playlist = list,
                        !.originalPlaylist = list,
                        !.currentIndex = IF startTrack >= 0 /\ startTrack < Len(list)
                                         THEN startTrack ELSE @]
    IN playPause(loadTrack(s1, s1.currentIndex))

\* ------------------------------------------------------------------------
\* The search page: building the query of searchShows
\*
\* Texts are sequences of characters.

CollectionFilter ==
    <<"c","o","l","l","e","c","t","i","o","n",":","(","l","i","b","r","i","v",
      "o","x","a","u","d","i","o",")">>

FrenchClause ==
    <<"l","a","n","g","u","a","g","e",":","(","F","r","e","n","c","h",")">>

EnglishClause ==
    <<"l","a","n","g","u","a","g","e",":","(","E","n","g","l","i","s","h",
      ")">>

YearClauseStart ==
    <<"y","e","a","r",":","[">>

And == <<" ","A","N","D"," ">>
To == <<" ","T","O"," ">>

resultsPerPage == 24

\* bandConfig: the presets the model draws from. query <<>> is `query: null`,
\* yearRange <<>> is a preset without yearRange.
bandConfig(band) ==
    CASE band = "AllLibriVox" ->
           [query |-> CollectionFilter, yearRange |-> <<1700, 2024>>]
      [] band = "Romance" ->
           [query |-> CollectionFilter \o And
                      \o <<"s","u","b","j","e","c","t",":","(","r","o","m","a","n","c","e",")">>,
            yearRange |-> <<>>]
      [] band = "French" ->
           [query |-> CollectionFilter \o And \o FrenchClause, yearRange |-> <<>>]
      [] band \in {"Author_Search", "Title_Search", "Custom"} ->
           [query |-> <<>>, yearRange |-> <<>>]

Bands == {"AllLibriVox", "Romance", "French", "Author_Search", "Title_Search", "Custom"}

\* getBandConfig: an unknown id gets the AllLibriVox preset
getBandConfig(bookId) ==
    IF bookId \in Bands THEN bandConfig(bookId) ELSE bandConfig("AllLibriVox")

DecimalDigits == <<"0","1","2","3","4","5","6","7","8","9">>

\* the decimal text of a natural number, as a template literal prints it
RECURSIVE decimal(_)
decimal(n) ==
    IF n < 10 THEN <<DecimalDigits[n + 1]>>
    ELSE decimal(n \div 10) \o <<DecimalDigits[(n % 10) + 1]>>

\* String.prototype.trim on texts whose only white space is the space
RECURSIVE trimStart(_)
trimStart(str) ==
    IF str # <<>> /\ Head(str) = " " THEN trimStart(Tail(str)) ELSE str

RECURSIVE trimEnd(_)
trimEnd(str) ==
    IF str # <<>> /\ str[Len(str)] = " " THEN trimEnd(SubSeq(str, 1, Len(str) - 1)) ELSE str

trim(str) == trimEnd(trimStart(str))

\* the clause of one toggled filter
filterClause(filter) ==
    CASE filter = "solo" ->
           And \o <<"s","u","b","j","e","c","t",":","(","s","o","l","o",")">>
      [] filter = "complete" ->
           And \o <<"s","u","b","j","e","c","t",":","(","c","o","m","p","l","e","t","e",")">>
      [] filter = "english" -> And \o EnglishClause
      [] OTHER -> <<>>

\* activeFilters.forEach: the clauses in insertion order
RECURSIVE filterClauses(_)
filterClauses(filters) ==
    IF filters = <<>> THEN <<>>
    ELSE filterClause(Head(filters)) \o filterClauses(Tail(filters))

\* mutant: a query that takes the year range of AllLibriVox for every preset
yearClause_AlwaysDefault(config, yearFrom, yearTo) ==
    IF yearFrom # <<>> \/ yearTo # <<>>
    THEN And \o YearClauseStart
         \o (IF yearFrom # <<>> THEN yearFrom ELSE <<"1","7","0","0">>) \o To
         \o (IF yearTo # <<>> THEN yearTo ELSE <<"2","0","2","4">>) \o <<"]">>
    ELSE And \o YearClauseStart \o decimal(1700) \o To \o decimal(2024) \o <<"]">>

\* the year clause: the form's range, else the preset's, else none
yearClause(config, yearFrom, yearTo) ==
    IF yearFrom # <<>> \/ yearTo # <<>>
    THEN And \o YearClauseStart
         \o (IF yearFrom # <<>> THEN yearFrom ELSE <<"1","7","0","0">>) \o To
         \o (IF yearTo # <<>> THEN yearTo ELSE <<"2","0","2","4">>) \o <<"]">>
    ELSE IF config.yearRange # <<>>
    THEN And \o YearClauseStart \o decimal(config.yearRange[1]) \o To
         \o decimal(config.yearRange[2]) \o <<"]">>
    ELSE <<>>

\* the base clause: the preset's query, or the search type's clause on the
\* free text
baseClause(config, band, query) ==
    LET baseQuery == IF config.query # <<>> THEN config.query ELSE CollectionFilter
    IN IF band = "Author_Search" /\ query # <<>>
       THEN CollectionFilter \o And
            \o <<"c","r","e","a","t","o","r",":","(">> \o query \o <<")">>
       ELSE IF band = "Title_Search" /\ query # <<>>
       THEN CollectionFilter \o And \o <<"t","i","t","l","e",":","(">> \o query \o <<")">>
       ELSE IF band = "Custom" /\ query # <<>>
       THEN CollectionFilter \o And \o <<"(">> \o query \o <<")">>
       ELSE IF query # <<>>
       THEN baseQuery \o And \o <<"(">> \o query \o <<")">>
       ELSE baseQuery

\* searchShows: the query text for the trimmed free text, the year inputs,
\* the preset and the toggled filters
buildQuery(query, yearFrom, yearTo, band, filters) ==
    LET config == getBandConfig(band)
    IN baseClause(config, band, query) \o yearClause(config, yearFrom, yearTo)
       \o filterClauses(filters)

\* encodeURIComponent on the characters a query holds: letters, digits and
\* ( ) stay, the others are percent-encoded
encodeChar(c) ==
    CASE c = " "  -> <<"%","2","0">>
      [] c = ":"  -> <<"%","3","A">>
      [] c = "["  -> <<"%","5","B">>
      [] c = "]"  -> <<"%","5","D">>
      [] c = "\"" -> <<"%","2","2">>
      [] c = "%"  -> <<"%","2","5">>
      [] OTHER    -> <<c>>

RECURSIVE encodeURIComponent(_)
encodeURIComponent(str) ==
    IF str = <<>> THEN <<>>
    ELSE encodeChar(Head(str)) \o encodeURIComponent(Tail(str))

\* the request of searchShows: the q, rows and page parameters of the URL
\* (its other parameters are fixed text)
searchUrl(query, yearFrom, yearTo, band, filters, page) ==
    [q |-> encodeURIComponent(buildQuery(query, yearFrom, yearTo, band, filters)),
     rows |-> decimal(resultsPerPage),
     page |-> decimal(page)]

\* what the server reads in a percent-encoded parameter
decodeTriple(a, b) ==
    CASE <<a, b>> = <<"2","0">> -> " "
      [] <<a, b>> = <<"3","A">> -> ":"
      [] <<a, b>> = <<"5","B">> -> "["
      [] <<a, b>> = <<"5","D">> -> "]"
      [] <<a, b>> = <<"2","2">> -> "\""
      [] <<a, b>> = <<"2","5">> -> "%"
      [] OTHER -> "?"

RECURSIVE decodeURIComponent(_)
decodeURIComponent(str) ==
    IF str = <<>> THEN <<>>
    ELSE IF Head(str) = "%" /\ Len(str) >= 3
    THEN <<decodeTriple(str[2], str[3])>> \o decodeURIComponent(SubSeq(str, 4, Len(str)))
    ELSE <<Head(str)>> \o decodeURIComponent(Tail(str))

\* ------------------------------------------------------------------------
\* The search page: searches, retries, append loading
\*
\*   form              the values of the inputs searchQuery, yearFrom, yearTo
\*                     and bandSelector
\*   activeFilters     the toggled filters, in insertion order
\*   currentPage, totalResults, isLoadingMore, lastSearchParams
\*                     the module's variables of the same names (<<>>: null)
\*   currentResults    the loaded documents, as blocks [params, size]: the
\*                     `size` documents the server returned for `params`
\*   calls             the calls of searchShows waiting in fetchWithRetry:
\*                     [params, filters, append, attempt, sleeping]
\*   resultsDiv        the content of the results element: the error panel
\*                     with its retry button (<<>>: none; else the call whose
\*                     failure drew it), the "no audiobooks" message, the
\*                     cards shown (as blocks)

\* the search state as a record g
SearchCur ==
    [form |-> form, activeFilters |-> activeFilters, currentPage |-> currentPage,
     totalResults |-> totalResults, currentResults |-> currentResults,
     isLoadingMore |-> isLoadingMore, lastSearchParams |-> lastSearchParams,
     calls |-> calls, resultsDiv |-> resultsDiv]

EmptyResultsDiv == [panel |-> <<>>, message |-> FALSE, cards |-> <<>>]

\* the module's state when it has loaded
NewSearch ==
    /\ activeFilters = <<>>
    /\ currentPage = 1
    /\ totalResults = 0
    /\ currentResults = <<>>
    /\ isLoadingMore = FALSE
    /\ lastSearchParams = <<>>
    /\ calls = <<>>
    /\ resultsDiv = EmptyResultsDiv
    /\ searches = 0

\* the search page is not open
NoSearch ==
    /\ form = [query |-> <<>>, yearFrom |-> <<>>, yearTo |-> <<>>, band |-> "AllLibriVox"]
    /\ NewSearch

\* the request a call fetches
callUrl(call) ==
    searchUrl(call.params.query, call.params.yearFrom, call.params.yearTo,
              call.params.band, call.filters, call.params.page)

\* searchShows(page, append) up to `await fetch(url)`
searchShows(g, page, append) ==
    LET params == [query |-> trim(g.form.query), yearFrom |-> g.form.yearFrom,
                   yearTo |-> g.form.yearTo, band |-> g.form.band, page |-> page]
    IN [g EXCEPT !.lastSearchParams = <<params>>,
                 !.currentPage = page,
                 !.calls = Append(@, [params |-> params, filters |-> g.activeFilters,
                                      append |-> append, attempt |-> 1, sleeping |-> 0])]

\* the calls without the one at position i
dropCall(list, i) == SubSeq(list, 1, i - 1) \o SubSeq(list, i + 1, Len(list))

\* currentResults.length
RECURSIVE docCount(_)
docCount(blocks) ==
    IF blocks = <<>> THEN 0 ELSE Head(blocks).size + docCount(Tail(blocks))

\* the number of documents on a page when numFound documents match
pageSize(numFound, page) ==
    LET left == numFound - resultsPerPage * (page - 1)
    IN IF left <= 0 THEN 0 ELSE IF left > resultsPerPage THEN resultsPerPage ELSE left

\* searchShows after fetchWithRetry returned the response of call i, which
\* reports numFound matching documents
searchSucceeded(g, i, numFound) ==
    LET call == g.calls[i]
        size == pageSize(numFound, call.params.page)
        g1 == [g EXCEPT !.calls = dropCall(@, i), !.isLoadingMore = FALSE]
    IN IF size = 0
       THEN [g1 EXCEPT !.resultsDiv = IF call.append THEN @
                                      ELSE [EmptyResultsDiv EXCEPT !.message = TRUE]]
       ELSE LET block == [params |-> call.params, size |-> size]
                results == IF call.append THEN Append(g.currentResults, block)
                           ELSE <<block>>
            IN [g1 EXCEPT !.totalResults = numFound,
                          !.currentResults = results,
                          !.resultsDiv = IF call.append
                                         THEN [@ EXCEPT !.cards = @ \o results]
                                         ELSE [EmptyResultsDiv EXCEPT !.cards = results]]

\* handleSearchError: the panel replaces the content of the results element
handleSearchError(g, call) ==
    [g EXCEPT !.resultsDiv = [EmptyResultsDiv EXCEPT !.panel = <<call>>]]

\* mutant: fetchWithRetry that gives up after the second attempt
fetchFailed_GiveUpEarly(g, i) ==
    LET call == g.calls[i]
    IN IF call.attempt = MAX_RETRIES - 1
       THEN handleSearchError([g EXCEPT !.calls = dropCall(@, i),
                                        !.isLoadingMore = FALSE], call)
       ELSE [g EXCEPT !.calls[i].sleeping = RETRY_DELAY * call.attempt]

\* an attempt of call i failed: fetchWithRetry sleeps and tries again, or
\* after the last attempt throws into the catch block of searchShows
fetchFailed(g, i) ==
    LET call == g.calls[i]
    IN IF call.attempt = MAX_RETRIES
       THEN handleSearchError([g EXCEPT !.calls = dropCall(@, i),
                                        !.isLoadingMore = FALSE], call)
       ELSE [g EXCEPT !.calls[i].sleeping = RETRY_DELAY * call.attempt]

\* the sleep of call i is over: the loop goes to its next attempt
nextAttempt(g, i) ==
    [g EXCEPT !.calls[i].sleeping = 0, !.calls[i].attempt = @ + 1]

\* mutant: a retry that searches with the form as it stands
retryLastSearch_KeepForm(g) ==
    IF g.lastSearchParams = <<>> THEN g
    ELSE searchShows(g, g.lastSearchParams[1].page, FALSE)

\* window.retryLastSearch
retryLastSearch(g) ==
    IF g.lastSearchParams = <<>> THEN g
    ELSE LET last == g.lastSearchParams[1]
         IN searchShows([g EXCEPT !.form = [query |-> last.query,
                                            yearFrom |-> last.yearFrom,
                                            yearTo |-> last.yearTo,
                                            band |-> last.band]],
                        last.page, FALSE)

\* the IntersectionObserver callback for an intersecting sentinel
sentinelVisible(g) ==
    IF ~g.isLoadingMore /\ docCount(g.currentResults) < g.totalResults
    THEN LET nextPage == g.currentPage + 1
             totalPages == (g.totalResults + resultsPerPage - 1) \div resultsPerPage
             g1 == [g EXCEPT !.isLoadingMore = TRUE]
         IN IF nextPage <= totalPages THEN searchShows(g1, nextPage, TRUE) ELSE g1
    ELSE g

\* the texts typed into searchQuery
QueryTexts == { <<"a">>, <<" ","b">> }

\* the numbers of matching documents the server reports
NumFoundValues == {0, resultsPerPage * MaxResultPages - 12}

\* ------------------------------------------------------------------------
\* State machine

PollKinds == {"next", "prev", "select"}

\* the playback positions the model visits: the start, the restart threshold
\* of prevTrack, and the end
Positions == {0, RestartThreshold, Duration}
NextPosition(t) == CHOOSE p \in Positions : p > t /\ \A q \in Positions : q > t => p <= q

Cur == [playlist |-> playlist, originalPlaylist |-> originalPlaylist,
        currentIndex |-> currentIndex, isShuffled |-> isShuffled, loopMode |-> loopMode,
        playerState |-> playerState, isLoadingTrack |-> isLoadingTrack,
        consecutiveErrors |-> consecutiveErrors, resumeWait |-> resumeWait,
        polls |-> polls, audio |-> audio, lastVolume |-> lastVolume,
        playbackRate |-> playbackRate, notice |-> {}, micro |-> <<>>]

WithinBounds(s) ==
    /\ Len(s.audio.tasks) <= MaxTasks
    /\ s.polls["next"] + s.polls["prev"] + s.polls["select"] <= MaxPolls
    /\ s.resumeWait <= MaxResume
    /\ s.consecutiveErrors <= MaxErrors

\* the player's fields take the values of s
Publish(s) ==
       /\ WithinBounds(s)
       /\ playlist' = s.playlist
       /\ originalPlaylist' = s.originalPlaylist
       /\ currentIndex' = s.currentIndex
       /\ isShuffled' = s.isShuffled
       /\ loopMode' = s.loopMode
       /\ playerState' = s.playerState
       /\ isLoadingTrack' = s.isLoadingTrack
       /\ consecutiveErrors' = s.consecutiveErrors
       /\ resumeWait' = s.resumeWait
       /\ polls' = s.polls
       /\ audio' = s.audio
       /\ lastVolume' = s.lastVolume
       /\ playbackRate' = s.playbackRate
       /\ notice' = s.notice

\* the handler has returned: run the promise reactions, then publish the state
Commit(s0) ==
    /\ Publish(runReactions(s0))
    /\ UNCHANGED <<pageVars, storeVars, unloadVars, urlVars, searchVars>>

\* the session after `new Player()`
NewPlayer ==
    /\ pc = "new"
    /\ playlist = <<>>
    /\ originalPlaylist = <<>>
    /\ currentIndex = 0
    /\ isShuffled = FALSE
    /\ loopMode = "none"
    /\ playerState = "paused"
    /\ isLoadingTrack = FALSE
    /\ consecutiveErrors = 0
    /\ resumeWait = 0
    /\ lastVolume = 100
    /\ playbackRate = 100
    /\ polls = [k \in PollKinds |-> 0]
    /\ audio = NewAudio
    /\ notice = {}
    /\ manifestOrder = <<>>
    /\ errorRun = 0

\* new Visualizer()
NewVisualizer == [canvas |-> FALSE, audioContext |-> "null", animationId |-> FALSE,
                  isInitialized |-> FALSE]

\* How far visualizer.initialize gets on a page:
\*   "noCanvas"   there is no visualizerCanvas element
\*   "noContext"  `new AudioContext()` throws
\*   "noSource"   createMediaElementSource throws
\*   "no2d"       canvas.getContext('2d') is null: draw returns at once
\*   "ok"         everything works and draw requests animation frames
WebAudioKinds == {"noCanvas", "noContext", "noSource", "no2d", "ok"}

\* visualizer.initialize(audio)
visualizerInitialize(v, kind) ==
    IF v.isInitialized \/ kind = "noCanvas" THEN v
    ELSE IF kind = "noContext" THEN [v EXCEPT !.canvas = TRUE]
    ELSE IF kind = "noSource" THEN [v EXCEPT !.canvas = TRUE, !.audioContext = "open"]
    ELSE [canvas |-> TRUE, audioContext |-> "open", animationId |-> kind = "ok",
          isInitialized |-> TRUE]

\* visualizer.destroy()
visualizerDestroy(v) ==
    [v EXCEPT !.animationId = FALSE, !.audioContext = "null", !.isInitialized = FALSE]

\* audio.removeAttribute('src'): the attribute goes; removing it does not run
\* the load algorithm, so the element keeps its position and queued tasks
audioRemoveSrc(a) == [a EXCEPT !.hasSrc = FALSE, !.src = <<>>]

\* mutant: destroy that does not test this.audio
destroy_NoAudioTest(s, v, hasAudio) ==
    IF hasAudio
    THEN [audio |-> audioRemoveSrc(audioPause(s).audio), visualizer |-> visualizerDestroy(v),
          threw |-> FALSE]
    ELSE [audio |-> s.audio, visualizer |-> visualizerDestroy(v), threw |-> TRUE]

\* destroy: the media element, the visualizer and whether the call threw.
\* hasAudio: this.audio is set (setupUI has run).
destroy(s, v, hasAudio) ==
    IF hasAudio
    THEN [audio |-> audioRemoveSrc(audioPause(s).audio), visualizer |-> visualizerDestroy(v),
          threw |-> FALSE]
    ELSE [audio |-> s.audio, visualizer |-> visualizerDestroy(v), threw |-> FALSE]

\* the page is not unloading, its visualizer works and its URL is not
\* looked at
\* the previous and next buttons as the page is served: enabled
NewButtons == [prev |-> FALSE, next |-> FALSE]

NoUnload ==
    /\ webAudio = "ok"
    /\ visualizer = NewVisualizer
    /\ destroyCalls = 0
    /\ threw = FALSE
    /\ urlTrack = -1
    /\ wrapped = FALSE
    /\ buttons = NewButtons

\* localStorage.getItem(key) is null: nothing is stored under the key
Absent == [kind |-> "absent"]

\* no StorageManager has been constructed, nothing is stored
NoStore ==
    /\ localStorage = Absent
    /\ storeReady = FALSE
    /\ lastAdded = 0

\* no page input is recorded
NoPageInput ==
    /\ manifest = <<>>
    /\ startIndex = 0

Init ==
    /\ NewPlayer
    /\ NoPageInput
    /\ NoStore
    /\ NoUnload
    /\ searchPc = "none"
    /\ NoSearch

Indexes == 0..(Len(playlist) - 1)

\* mutant: initializePlayerPage whose initialize has no empty-playlist check
Initialize_NoEmptyCheck ==
    /\ pc = "new"
    /\ \E files \in Manifests, trackParam \in -1..(NumChapters + 1), fetched \in BOOLEAN :
         IF fetched
         THEN /\ pc' = "ready"
              /\ Commit(initialize(Cur, files, startTrackOf(trackParam)))
              /\ manifestOrder' = buildPlaylist(files)
         ELSE /\ pc' = "failed"
              /\ Commit([Cur EXCEPT !.notice = {"panel:initError"}])
              /\ manifestOrder' = manifestOrder
    /\ visualizer' = IF pc' = "ready" THEN visualizerInitialize(visualizer, webAudio)
                     ELSE visualizer
    /\ UNCHANGED errorRun

Initialize ==
    /\ pc = "new"
    /\ \E files \in Manifests, trackParam \in -1..(NumChapters + 1), fetched \in BOOLEAN :
         IF fetched /\ audioFilter(files) # <<>>
         THEN /\ pc' = "ready"
              /\ Commit(initialize(Cur, files, startTrackOf(trackParam)))
              /\ manifestOrder' = buildPlaylist(files)
         ELSE /\ pc' = "failed"
              /\ Commit([Cur EXCEPT !.notice = {"panel:initError"}])
              /\ manifestOrder' = manifestOrder
    /\ visualizer' = IF pc' = "ready" THEN visualizerInitialize(visualizer, webAudio)
                     ELSE visualizer
    /\ UNCHANGED errorRun

PlayPauseCall ==
    /\ pc = "ready"
    /\ Commit(playPause(Cur))
    /\ UNCHANGED <<pc, manifestOrder, errorRun, visualizer>>

PlayPauseResume ==
    /\ pc = "ready"
    /\ resumeWait > 0
    /\ \E allowed \in BOOLEAN :
         Commit(playPauseBody([Cur EXCEPT !.resumeWait = @ - 1], allowed))
    /\ UNCHANGED <<pc, manifestOrder, errorRun, visualizer>>

NextTrack ==
    /\ pc = "ready"
    /\ \E r \in Indexes : Commit(nextTrack(Cur, r))
    /\ UNCHANGED <<pc, manifestOrder, errorRun, visualizer>>

PrevTrack ==
    /\ pc = "ready"
    /\ \E r \in Indexes : Commit(prevTrack(Cur, r))
    /\ UNCHANGED <<pc, manifestOrder, errorRun, visualizer>>

SelectTrack ==
    /\ pc = "ready"
    /\ \E index \in Indexes : Commit(selectTrack(Cur, index))
    /\ UNCHANGED <<pc, manifestOrder, errorRun, visualizer>>

RetryCurrentTrack ==
    /\ pc = "ready"
    /\ Commit(retryCurrentTrack(Cur))
    /\ UNCHANGED <<pc, manifestOrder, errorRun, visualizer>>

ToggleShuffle ==
    /\ pc = "ready"
    /\ \E rnd \in RandomDraws(Len(playlist)) : Commit(toggleShuffle(Cur, rnd))
    /\ UNCHANGED <<pc, manifestOrder, errorRun, visualizer>>

ToggleLoop ==
    /\ pc = "ready"
    /\ Commit(toggleLoop(Cur))
    /\ UNCHANGED <<pc, manifestOrder, errorRun, visualizer>>

SeekTrack ==
    /\ pc = "ready"
    /\ \E t \in Positions : Commit(seekTrack(Cur, t))
    /\ UNCHANGED <<pc, manifestOrder, errorRun, visualizer>>

PlayWhenReady ==
    /\ pc = "ready"
    /\ \E kind \in PollKinds, allowed \in BOOLEAN :
         /\ polls[kind] > 0
         /\ Commit(playWhenReady(Cur, kind, allowed))
    /\ UNCHANGED <<pc, manifestOrder, errorRun, visualizer>>

\* ---- media element tasks and events
\* The element's events are tasks of one task source, delivered in the order
\* they were queued: an event of the resource (canplay, error, waiting, ended)
\* is fired once the tasks queued before it have run.

\* the listeners of setupUI for the event a queued task fires
fireEvent(s, ev) ==
    CASE ev = "playing" -> onPlaying(s)
      [] ev = "pause"   -> updateState(s, "paused")
      [] ev = "waiting" -> updateState(s, "loading")
      [] OTHER          -> s

\* the first queued task runs: its event is fired, its promises are settled
deliverTask(s) ==
    LET task == Head(s.audio.tasks)
        s1 == fireEvent([s EXCEPT !.audio.tasks = Tail(@)], task.ev)
    IN [s1 EXCEPT !.micro = @ \o Settled(task.who, task.outcome)]

DeliverTask ==
    /\ pc = "ready"
    /\ audio.tasks # <<>>
    /\ Commit(deliverTask(Cur))
    /\ errorRun' = IF Head(audio.tasks).ev = "playing" THEN 0 ELSE errorRun
    /\ UNCHANGED <<pc, manifestOrder, visualizer>>

\* the ready state rises to "enough": canplay is fired, and the element
\* queues playing, with the pending play promises, if it is not paused
canPlay(s) ==
    LET s1 == onCanPlay([s EXCEPT !.audio.ready = "enough"])
    IN IF s1.audio.paused THEN s1
       ELSE [s1 EXCEPT !.audio.promises = {},
                       !.audio.tasks = Append(@, [ev |-> "playing",
                                                  who |-> s1.audio.promises,
                                                  outcome |-> "resolved"])]

\* enough data has arrived: canplay, and playback starts if not paused
MediaCanPlay ==
    /\ pc = "ready"
    /\ audio.tasks = <<>>
    /\ audio.hasSrc /\ audio.src # <<>>
    /\ audio.ready # "enough" /\ audio.error = "none"
    /\ Commit(canPlay(Cur))
    /\ UNCHANGED <<pc, manifestOrder, errorRun, visualizer>>

\* the resource selection fails (an empty src always does): error event
MediaLoadError ==
    /\ pc = "ready"
    /\ audio.tasks = <<>>
    /\ audio.hasSrc
    /\ audio.ready = "nothing" /\ audio.error = "none"
    /\ LET s1 == handleAudioError([Cur EXCEPT !.audio.error = "src"])
       IN Commit([s1 EXCEPT !.audio.promises = {},
                            !.micro = @ \o Settled(s1.audio.promises, "NotSupportedError")])
    /\ errorRun' = errorRun + 1
    /\ UNCHANGED <<pc, manifestOrder, visualizer>>

\* a network or decode error after the resource had loaded: error event
MediaFatalError ==
    /\ pc = "ready"
    /\ audio.tasks = <<>>
    /\ audio.ready # "nothing" /\ audio.error = "none"
    /\ Commit(handleAudioError([Cur EXCEPT !.audio.error = "fatal"]))
    /\ errorRun' = errorRun + 1
    /\ UNCHANGED <<pc, manifestOrder, visualizer>>

\* playback runs out of data: waiting event
MediaStall ==
    /\ pc = "ready"
    /\ audio.tasks = <<>>
    /\ ~audio.paused /\ audio.ready = "enough" /\ audio.error = "none"
    /\ audio.time < Duration
    /\ Commit(updateState([Cur EXCEPT !.audio.ready = "current"], "loading"))
    /\ UNCHANGED <<pc, manifestOrder, errorRun, visualizer>>

MediaTick ==
    /\ pc = "ready"
    /\ audio.tasks = <<>>
    /\ ~audio.paused /\ audio.ready = "enough" /\ audio.error = "none"
    /\ audio.time < Duration
    /\ Commit([Cur EXCEPT !.audio.time = NextPosition(@)])
    /\ UNCHANGED <<pc, manifestOrder, errorRun, visualizer>>

\* the element pauses at the end of the resource, fires pause, then ended
ended(s, r, allowed) ==
    LET s1 == updateState([s EXCEPT !.audio.paused = TRUE,
                                    !.audio.promises = {},
                                    !.micro = @ \o Settled(s.audio.promises, "AbortError")],
                          "paused")
    IN handleTrackEnd(s1, r, allowed)

\* playback reaches the end: the element pauses, fires pause, then ended.
\* The element was playing, so the autoplay policy has admitted it and admits
\* the play() of handleTrackEnd.
MediaEnded ==
    /\ pc = "ready"
    /\ audio.tasks = <<>>
    /\ ~audio.paused /\ audio.ready = "enough" /\ audio.error = "none"
    /\ audio.time = Duration
    /\ \E r \in Indexes, allowed \in {TRUE} : Commit(ended(Cur, r, allowed))
    /\ UNCHANGED <<pc, manifestOrder, errorRun, visualizer>>

Next ==
    \/ Initialize
    \/ PlayPauseCall
    \/ PlayPauseResume
    \/ NextTrack
    \/ PrevTrack
    \/ SelectTrack
    \/ RetryCurrentTrack
    \/ ToggleShuffle
    \/ ToggleLoop
    \/ SeekTrack
    \/ PlayWhenReady
    \/ DeliverTask
    \/ MediaCanPlay
    \/ MediaLoadError
    \/ MediaFatalError
    \/ MediaStall
    \/ MediaTick
    \/ MediaEnded

Spec == Init /\ [][Next]_vars

\* ---- opening a page: initialize applied to a drawn manifest and start index
ManifestInputs == Manifests \cup GeneratedManifests
StartTracks == { startTrackOf(trackParam) : trackParam \in -1..(MaxFiles + 1) }

OpenInit ==
    /\ NewPlayer
    /\ manifest \in ManifestInputs
    /\ startIndex \in StartTracks
    /\ NoStore
    /\ NoUnload
    /\ searchPc = "none"
    /\ NoSearch

Open ==
    /\ pc = "new"
    /\ IF audioFilter(manifest) # <<>>
       THEN /\ pc' = "ready"
            /\ Commit(initialize(Cur, manifest, startIndex))
            /\ manifestOrder' = buildPlaylist(manifest)
       ELSE /\ pc' = "failed"
            /\ Commit([Cur EXCEPT !.notice = {"panel:initError"}])
            /\ manifestOrder' = manifestOrder
    /\ visualizer' = IF pc' = "ready" THEN visualizerInitialize(visualizer, webAudio)
                     ELSE visualizer
    /\ UNCHANGED errorRun

OpenSpec == OpenInit /\ [][Open]_vars


\* ------------------------------------------------------------------------
\* StorageManager: the recently-viewed list in localStorage
\*
\* A stored value is a string; what matters of it is how JSON.parse takes it:
\*   [kind |-> "absent"]   no value under the key (getItem returns null)
\*   [kind |-> "empty"]    the empty string
\*   [kind |-> "garbage"]  a non-empty string JSON.parse throws on
\*   [kind |-> "json", value |-> v]  a string JSON.parse reads as v, where v
\*       is [type |-> "array", items |-> <<...>>] or a value of another type
JsonText(v) == [kind |-> "json", value |-> v]
JsonArray(items) == [type |-> "array", items |-> items]

\* JSON.stringify of an array of {identifier, title}
stringify(items) == JsonText(JsonArray(items))

\* localStorage.getItem(key) || '[]'
rawOrDefault(ls) == IF ls.kind \in {"absent", "empty"} THEN stringify(<<>>) ELSE ls

\* JSON.parse(raw) throws
parseThrows(raw) == raw.kind = "garbage"

\* Array.isArray(JSON.parse(raw))
parsesToArray(raw) == raw.kind = "json" /\ raw.value.type = "array"

\* initStorage: the value under the key after construction
initStorage(ls) ==
    LET raw == rawOrDefault(ls)
    IN IF parseThrows(raw) \/ ~parsesToArray(raw) THEN Absent ELSE ls

getRecentlyViewed(ls) ==
    LET raw == rawOrDefault(ls)
    IN IF parseThrows(raw) THEN <<>>
       ELSE IF parsesToArray(raw) THEN raw.value.items ELSE <<>>

\* stored.filter(s => s.identifier !== identifier)
RECURSIVE without(_, _)
without(stored, identifier) ==
    IF stored = <<>> THEN <<>>
    ELSE (IF Head(stored).identifier # identifier THEN <<Head(stored)>> ELSE <<>>)
         \o without(Tail(stored), identifier)

\* the list updateRecentlyViewed builds: deduplicated, the show in front, at
\* most MaxRecent long (one pop)
recentWith(stored, show) ==
    LET entry == [identifier |-> show.identifier,
                  title |-> IF show.title # <<>> THEN show.title
                            ELSE <<"Unknown Show">>]
        added == <<entry>> \o without(stored, show.identifier)
    IN IF Len(added) > MaxRecent THEN SubSeq(added, 1, Len(added) - 1) ELSE added

\* mutant: updateRecentlyViewed that does not remove the present entry
updateRecentlyViewed_NoDedup(ls, show) ==
    IF show.identifier = 0 THEN ls
    ELSE LET added == <<[identifier |-> show.identifier,
                         title |-> IF show.title # <<>> THEN show.title
                                   ELSE <<"Unknown Show">>]>> \o getRecentlyViewed(ls)
         IN stringify(IF Len(added) > MaxRecent THEN SubSeq(added, 1, Len(added) - 1)
                      ELSE added)

\* updateRecentlyViewed: the value under the key afterwards; identifier 0 is
\* a show without identifier
updateRecentlyViewed(ls, show) ==
    IF show.identifier = 0 THEN ls
    ELSE stringify(recentWith(getRecentlyViewed(ls), show))

\* the shows given to updateRecentlyViewed: identifier 0 is a show without
\* identifier; the first show comes with or without a title, the others
\* with one
Shows ==
    { [identifier |-> i, title |-> title] :
        i \in 0..NumShows, title \in {<<>>, <<"T">>} } \
    { [identifier |-> i, title |-> <<>>] : i \in 2..NumShows }

\* the values found under the key when the page opens
StoredValues ==
    { Absent, [kind |-> "empty"], [kind |-> "garbage"],
      JsonText([type |-> "object"]), JsonText([type |-> "null"]),
      stringify(<<>>), stringify(<<[identifier |-> 1, title |-> <<"T">>]>>) }

StoreInit ==
    /\ NewPlayer
    /\ NoPageInput
    /\ localStorage \in StoredValues
    /\ storeReady = FALSE
    /\ lastAdded = 0
    /\ NoUnload
    /\ searchPc = "none"
    /\ NoSearch

\* new StorageManager()
StoreConstruct ==
    /\ ~storeReady
    /\ storeReady' = TRUE
    /\ localStorage' = initStorage(localStorage)
    /\ UNCHANGED <<lastAdded, sessionVars, pageVars, visualizer, unloadVars, urlVars,
                   searchVars>>

\* storage.updateRecentlyViewed(show)
StoreUpdate ==
    /\ storeReady
    /\ \E show \in Shows :
         /\ localStorage' = updateRecentlyViewed(localStorage, show)
         /\ lastAdded' = IF show.identifier = 0 THEN lastAdded ELSE show.identifier
    /\ UNCHANGED <<storeReady, sessionVars, pageVars, visualizer, unloadVars, urlVars,
                   searchVars>>

StoreNext == StoreConstruct \/ StoreUpdate

StoreSpec == StoreInit /\ [][StoreNext]_vars

\* ------------------------------------------------------------------------
\* Volume: the mute button and the volume slider

\* the positions the slider is moved to
SliderValues == { (100 * k) \div VolumeSteps : k \in 0..VolumeSteps }

ToggleMute ==
    /\ pc = "ready"
    /\ Commit(toggleMute(Cur))
    /\ UNCHANGED <<pc, manifestOrder, errorRun, visualizer>>

HandleVolumeChange ==
    /\ pc = "ready"
    /\ \E value \in SliderValues : Commit(handleVolumeChange(Cur, value))
    /\ UNCHANGED <<pc, manifestOrder, errorRun, visualizer>>

\* the listener opens the page, sets the volume, mutes and changes chapters
VolumeNext ==
    \/ Initialize
    \/ ToggleMute
    \/ HandleVolumeChange
    \/ NextTrack
    \/ PrevTrack
    \/ SelectTrack
    \/ PlayWhenReady
    \/ DeliverTask
    \/ MediaCanPlay
    \/ MediaLoadError

VolumeSpec == Init /\ [][VolumeNext]_vars

\* ------------------------------------------------------------------------
\* The page's URL: initializePlayerPage reads the track parameter, awaits
\* initialize and the first playPause, and then replaces player.loadTrack by
\* a wrapper that writes index + 1 into the track parameter.
\*
\* In this specification playPause is called by the page only (the listener
\* changes chapters and does not use the play button), so the page's call
\* is the only one that waits at visualizer.resume() or on a play promise.

UrlInit ==
    /\ NewPlayer
    /\ NoPageInput
    /\ NoStore
    /\ webAudio = "ok"
    /\ visualizer = NewVisualizer
    /\ destroyCalls = 0
    /\ threw = FALSE
    /\ urlTrack \in -1..(NumChapters + 1)
    /\ wrapped = FALSE
    /\ buttons = NewButtons
    /\ searchPc = "none"
    /\ NoSearch

\* the page's `await player.playPause()` has returned
firstPlaySettled(s) ==
    /\ s.resumeWait = 0
    /\ "playPause" \notin s.audio.promises
    /\ \A i \in 1..Len(s.audio.tasks) : "playPause" \notin s.audio.tasks[i].who

\* the handler called this.loadTrack: its callers test isLoadingTrack first
\* and pass an index of the playlist, so the call sets the flag
loadTrackCalled(s) == ~isLoadingTrack /\ s.isLoadingTrack

\* the handler has returned and the promise reactions have run; a call of
\* this.loadTrack(index) went through the wrapper if it was installed, and
\* the wrapper is installed once the page's playPause has returned
UrlCommit(s0) ==
    LET s == runReactions(s0)
    IN /\ Publish(s)
       /\ urlTrack' = IF wrapped /\ loadTrackCalled(s) THEN s.currentIndex + 1
                      ELSE urlTrack
       /\ wrapped' = (wrapped \/ firstPlaySettled(s))
       /\ buttons' = buttons
       /\ UNCHANGED <<pageVars, storeVars, unloadVars, searchVars>>

UrlInitialize ==
    /\ pc = "new"
    /\ \E files \in Manifests, fetched \in BOOLEAN :
         IF fetched /\ audioFilter(files) # <<>>
         THEN /\ pc' = "ready"
              /\ Publish(runReactions(initialize(Cur, files, startTrackOf(urlTrack))))
              /\ manifestOrder' = buildPlaylist(files)
         ELSE /\ pc' = "failed"
              /\ Publish([Cur EXCEPT !.notice = {"panel:initError"}])
              /\ manifestOrder' = manifestOrder
    /\ visualizer' = IF pc' = "ready" THEN visualizerInitialize(visualizer, webAudio)
                     ELSE visualizer
    /\ UNCHANGED <<errorRun, pageVars, storeVars, unloadVars, urlVars, searchVars>>

UrlPlayPauseResume ==
    /\ pc = "ready"
    /\ resumeWait > 0
    /\ \E allowed \in BOOLEAN :
         UrlCommit(playPauseBody([Cur EXCEPT !.resumeWait = @ - 1], allowed))
    /\ UNCHANGED <<pc, manifestOrder, errorRun, visualizer>>

UrlNextTrack ==
    /\ pc = "ready"
    /\ \E r \in Indexes : UrlCommit(nextTrack(Cur, r))
    /\ UNCHANGED <<pc, manifestOrder, errorRun, visualizer>>

UrlPrevTrack ==
    /\ pc = "ready"
    /\ \E r \in Indexes : UrlCommit(prevTrack(Cur, r))
    /\ UNCHANGED <<pc, manifestOrder, errorRun, visualizer>>

\* the listener clicks another chapter of the list
UrlSelectTrack ==
    /\ pc = "ready"
    /\ \E index \in Indexes \ {currentIndex} : UrlCommit(selectTrack(Cur, index))
    /\ UNCHANGED <<pc, manifestOrder, errorRun, visualizer>>

UrlPlayWhenReady ==
    /\ pc = "ready"
    /\ \E kind \in PollKinds, allowed \in BOOLEAN :
         /\ polls[kind] > 0
         /\ UrlCommit(playWhenReady(Cur, kind, allowed))
    /\ UNCHANGED <<pc, manifestOrder, errorRun, visualizer>>

UrlDeliverTask ==
    /\ pc = "ready"
    /\ audio.tasks # <<>>
    /\ UrlCommit(deliverTask(Cur))
    /\ errorRun' = IF Head(audio.tasks).ev = "playing" THEN 0 ELSE errorRun
    /\ UNCHANGED <<pc, manifestOrder, visualizer>>

UrlCanPlay ==
    /\ pc = "ready"
    /\ audio.tasks = <<>>
    /\ audio.hasSrc /\ audio.src # <<>>
    /\ audio.ready # "enough" /\ audio.error = "none"
    /\ UrlCommit(canPlay(Cur))
    /\ UNCHANGED <<pc, manifestOrder, errorRun, visualizer>>

UrlTick ==
    /\ pc = "ready"
    /\ audio.tasks = <<>>
    /\ ~audio.paused /\ audio.ready = "enough" /\ audio.error = "none"
    /\ audio.time < Duration
    /\ UrlCommit([Cur EXCEPT !.audio.time = NextPosition(@)])
    /\ UNCHANGED <<pc, manifestOrder, errorRun, visualizer>>

UrlEnded ==
    /\ pc = "ready"
    /\ audio.tasks = <<>>
    /\ ~audio.paused /\ audio.ready = "enough" /\ audio.error = "none"
    /\ audio.time = Duration
    /\ \E r \in Indexes, allowed \in {TRUE} : UrlCommit(ended(Cur, r, allowed))
    /\ UNCHANGED <<pc, manifestOrder, errorRun, visualizer>>

UrlNext ==
    \/ UrlInitialize
    \/ UrlPlayPauseResume
    \/ UrlNextTrack
    \/ UrlPrevTrack
    \/ UrlSelectTrack
    \/ UrlPlayWhenReady
    \/ UrlDeliverTask
    \/ UrlCanPlay
    \/ UrlTick
    \/ UrlEnded

UrlSpec == UrlInit /\ [][UrlNext]_vars

\* ------------------------------------------------------------------------
\* Leaving the page: the beforeunload handler calls player.destroy()

UnloadInit ==
    /\ NewPlayer
    /\ NoPageInput
    /\ NoStore
    /\ webAudio \in WebAudioKinds
    /\ visualizer = NewVisualizer
    /\ destroyCalls = 0
    /\ threw = FALSE
    /\ urlTrack = -1
    /\ wrapped = FALSE
    /\ buttons = NewButtons
    /\ searchPc = "none"
    /\ NoSearch

\* this.audio is set by setupUI, which initialize reaches when it succeeds
hasAudio == pc = "ready"

\* player.destroy()
Destroy ==
    /\ destroyCalls < MaxDestroy
    /\ LET d == destroy(Cur, visualizer, hasAudio)
       IN /\ audio' = d.audio
          /\ visualizer' = d.visualizer
          /\ threw' = (threw \/ d.threw)
    /\ destroyCalls' = destroyCalls + 1
    /\ notice' = {}
    /\ UNCHANGED <<pc, playlist, originalPlaylist, currentIndex, isShuffled, loopMode,
                   playerState, isLoadingTrack, consecutiveErrors, resumeWait, polls,
                   lastVolume, playbackRate, manifestOrder, errorRun, webAudio,
                   pageVars, storeVars, urlVars, searchVars>>

\* the session runs until the page is left; then only destroy is called.
\* The listener opens the page, plays, pauses, seeks and skips ahead; the
\* media element loads, stalls, fails and plays to the end.
Session ==
    /\ destroyCalls = 0
    /\ \/ Initialize
       \/ PlayPauseCall
       \/ PlayPauseResume
       \/ NextTrack
       \/ PlayWhenReady
       \/ SeekTrack
       \/ DeliverTask
       \/ MediaCanPlay
       \/ MediaLoadError
       \/ MediaFatalError
       \/ MediaStall
       \/ MediaTick
       \/ MediaEnded

UnloadNext == Session \/ Destroy

UnloadSpec == UnloadInit /\ [][UnloadNext]_vars

\* ------------------------------------------------------------------------
\* The search page: specifications

SearchCommit(g) ==
    /\ Len(g.calls) <= MaxInFlight
    /\ searches' = IF Len(g.calls) > Len(calls) THEN searches + 1 ELSE searches
    /\ searches' <= MaxSearches
    /\ form' = g.form
    /\ activeFilters' = g.activeFilters
    /\ currentPage' = g.currentPage
    /\ totalResults' = g.totalResults
    /\ currentResults' = g.currentResults
    /\ isLoadingMore' = g.isLoadingMore
    /\ lastSearchParams' = g.lastSearchParams
    /\ calls' = g.calls
    /\ resultsDiv' = g.resultsDiv
    /\ UNCHANGED otherVars

SearchInit ==
    /\ NewPlayer
    /\ NoPageInput
    /\ NoStore
    /\ NoUnload
    /\ form \in [query : QueryTexts, yearFrom : {<<>>}, yearTo : {<<>>}, band : {"French"}]
    /\ searchPc = "loaded"
    /\ NewSearch

\* initSearchPage: the handlers are bound and the first search runs
InitSearchPage ==
    /\ searchPc = "loaded"
    /\ searchPc' = "open"
    /\ SearchCommit(searchShows(SearchCur, 1, FALSE))

\* the user types into searchQuery
TypeQuery ==
    /\ searchPc = "open"
    /\ \E text \in QueryTexts : SearchCommit([SearchCur EXCEPT !.form.query = text])
    /\ UNCHANGED searchPc

\* the search button, or Enter in searchQuery
SearchClick ==
    /\ searchPc = "open"
    /\ SearchCommit(searchShows(SearchCur, 1, FALSE))
    /\ UNCHANGED searchPc

SentinelVisible ==
    /\ searchPc = "open"
    /\ SearchCommit(sentinelVisible(SearchCur))
    /\ UNCHANGED searchPc

FetchSucceeds ==
    /\ \E i \in 1..Len(calls), numFound \in NumFoundValues :
         /\ calls[i].sleeping = 0
         /\ SearchCommit(searchSucceeded(SearchCur, i, numFound))
    /\ UNCHANGED searchPc

FetchFails ==
    /\ \E i \in 1..Len(calls) :
         /\ calls[i].sleeping = 0
         /\ SearchCommit(fetchFailed(SearchCur, i))
    /\ UNCHANGED searchPc

SleepEnds ==
    /\ \E i \in 1..Len(calls) :
         /\ calls[i].sleeping > 0
         /\ SearchCommit(nextAttempt(SearchCur, i))
    /\ UNCHANGED searchPc

\* the Try Again button of the error panel
RetryLastSearch ==
    /\ searchPc = "open"
    /\ resultsDiv.panel # <<>>
    /\ SearchCommit(retryLastSearch(SearchCur))
    /\ UNCHANGED searchPc

SearchNext ==
    \/ InitSearchPage
    \/ TypeQuery
    \/ SearchClick
    \/ SentinelVisible
    \/ FetchSucceeds
    \/ FetchFails
    \/ SleepEnds
    \/ RetryLastSearch

SearchSpec == SearchInit /\ [][SearchNext]_vars

\* ---- the query of one search, on drawn inputs

FilterLists ==
    { <<>>, <<"solo">>, <<"english">>, <<"complete", "solo">>, <<"english", "complete">> }

QueryInit ==
    /\ NewPlayer
    /\ NoPageInput
    /\ NoStore
    /\ NoUnload
    /\ form \in [query : {<<>>, <<" ">>, <<"a">>, <<" ","b">>},
                 yearFrom : {<<>>, <<"1","9","0","0">>},
                 yearTo : {<<>>, <<"1","9","5","0">>},
                 band : Bands \cup {"GratefulDead"}]
    /\ activeFilters \in FilterLists
    /\ searchPc = "open"
    /\ currentPage = 1
    /\ totalResults = 0
    /\ currentResults = <<>>
    /\ isLoadingMore = FALSE
    /\ lastSearchParams = <<>>
    /\ calls = <<>>
    /\ resultsDiv = EmptyResultsDiv
    /\ searches = 0

\* one search of a page is started
QuerySearch ==
    /\ calls = <<>>
    /\ lastSearchParams = <<>>
    /\ \E page \in 1..MaxResultPages : SearchCommit(searchShows(SearchCur, page, FALSE))
    /\ UNCHANGED searchPc

QuerySpec == QueryInit /\ [][QuerySearch]_vars

\* ------------------------------------------------------------------------
\* Claims

\* the calls of loadTrack, nextTrack, prevTrack and selectTrack
TrackCall == NextTrack \/ PrevTrack \/ SelectTrack \/ RetryCurrentTrack

\* C1: while a track load is in flight, a call of loadTrack, nextTrack,
\* prevTrack or selectTrack is dropped: currentIndex, playlist, playerState and
\* the media element (its source included) stay as they were, the load stays
\* in flight and no auto-play poll is scheduled for the call.
C1_CallsDroppedWhileLoading ==
    [][(isLoadingTrack /\ TrackCall)
         => /\ currentIndex' = currentIndex
            /\ playlist' = playlist
            /\ playerState' = playerState
            /\ audio' = audio
            /\ isLoadingTrack'
            /\ polls' = polls]_vars

\* a selectTrack was dropped during a load ('Please wait...')
C1_Witness ==
    /\ pc = "ready"
    /\ isLoadingTrack
    /\ playerState = "loading"
    /\ notice = {"toast:wait"}

\* a media error event
ErrorEvent == MediaLoadError \/ MediaFatalError

\* C2: at a media error event the blocking panel is surfaced exactly when the
\* error is at least the 3rd since the last 'playing' event (or since the
\* start of the session); otherwise only the transient notice is shown.
C2_PanelAtThirdConsecutiveError ==
    [][ErrorEvent
         => /\ ("panel:multipleFailed" \in notice') <=> (errorRun' >= 3)
            /\ ("toast:mediaError" \in notice') <=> (errorRun' < 3)]_vars

\* the third error in a row has surfaced the panel
C2_Witness ==
    /\ "panel:multipleFailed" \in notice
    /\ errorRun = 3


\* C3: whenever playerState moves to 'playing' (by the 'playing' event, by a
\* play attempt of playPause that succeeded, or by an auto-play attempt that
\* succeeded), consecutiveErrors is zero after the step.
C3_PlayingResetsErrorCount ==
    [][(playerState # "playing" /\ playerState' = "playing")
         => consecutiveErrors' = 0]_vars


LastIndex == Len(playlist) - 1

\* C4: prevTrack called while the playback position is greater than 3 seconds
\* never changes currentIndex.
C4_PrevTrackOver3sKeepsIndex ==
    [][(PrevTrack /\ audio.time > 3) => currentIndex' = currentIndex]_vars

\* C5: prevTrack with the position at most 3 seconds, shuffle off and no load
\* in flight sets currentIndex to currentIndex - 1 when currentIndex > 0; at
\* index 0 it sets it to the last index when loopMode is 'all' and leaves it
\* unchanged otherwise.
C5_PrevTrackRetreats ==
    [][(PrevTrack /\ audio.time <= 3 /\ ~isShuffled /\ ~isLoadingTrack)
         => currentIndex' = IF currentIndex > 0 THEN currentIndex - 1
                            ELSE IF loopMode = "all" THEN LastIndex
                            ELSE currentIndex]_vars

\* prevTrack has wrapped from index 0 to the last index and started its load
C5_Witness ==
    /\ polls["prev"] = 1
    /\ isLoadingTrack
    /\ ~isShuffled
    /\ loopMode = "all"
    /\ currentIndex = LastIndex
    /\ audio.src = playlist[LastIndex + 1].url

\* C6: nextTrack with shuffle off and no load in flight sets currentIndex to
\* currentIndex + 1 when that is in range; at the last index it sets it to 0
\* when loopMode is 'all' and leaves it unchanged otherwise.
C6_NextTrackAdvances ==
    [][(NextTrack /\ ~isShuffled /\ ~isLoadingTrack)
         => currentIndex' = IF currentIndex + 1 < Len(playlist) THEN currentIndex + 1
                            ELSE IF loopMode = "all" THEN 0
                            ELSE currentIndex]_vars

\* nextTrack has advanced to the last index and started its load
C6_Witness ==
    /\ polls["next"] = 1
    /\ isLoadingTrack
    /\ ~isShuffled
    /\ loopMode = "none"
    /\ currentIndex = LastIndex
    /\ audio.src = playlist[LastIndex + 1].url

Occurrences(list, x) == Cardinality({i \in 1..Len(list) : list[i] = x})
SameMultiset(a, b) ==
    /\ Len(a) = Len(b)
    /\ \A i \in 1..Len(a) : Occurrences(a, a[i]) = Occurrences(b, a[i])

\* C7: a shuffle toggle, in either direction, keeps the multiset of chapters
\* of the playlist, and the chapter at currentIndex after the toggle has the
\* url of the chapter at currentIndex before it.
C7_ShuffleKeepsChaptersAndCurrent ==
    [][ToggleShuffle
         => /\ SameMultiset(playlist, playlist')
            /\ currentIndex' \in 0..(Len(playlist') - 1)
            /\ playlist'[currentIndex' + 1].url = playlist[currentIndex + 1].url]_vars

\* shuffle is on, the order has changed, and the current chapter has moved
\* with its index
C7_Witness ==
    /\ isShuffled
    /\ playlist # originalPlaylist
    /\ audio.src = playlist[currentIndex + 1].url
    /\ originalPlaylist[currentIndex + 1].url # audio.src

\* C8: whenever shuffle is off the working playlist is the playlist in
\* manifest order, and the original-order sequence is never modified after
\* initialization.
C8_UnshuffledIsManifestOrder ==
    pc = "ready" => /\ originalPlaylist = manifestOrder
                    /\ ~isShuffled => playlist = manifestOrder

\* shuffle is off after track changes and media errors
C8_Witness ==
    /\ pc = "ready"
    /\ ~isShuffled
    /\ playlist = manifestOrder
    /\ currentIndex > 0
    /\ consecutiveErrors > 0

\* C9: after a successful initialization currentIndex is an integer in
\* [0, playlist.length).
C9_CurrentIndexInRange ==
    pc = "ready" => currentIndex \in 0..(Len(playlist) - 1)

\* the last index is current in a shuffled playlist
C9_Witness ==
    /\ pc = "ready"
    /\ isShuffled
    /\ currentIndex = LastIndex
    /\ playlist # originalPlaylist

\* C10: when a track ends with loopMode not 'one' and loopMode 'all', shuffle
\* on or a successor index, the session advances per the nextTrack policy and
\* starts a load of the resolved index; with loopMode 'all', shuffle off and
\* the last index current, currentIndex becomes 0.
C10_TrackEndAdvances ==
    [][(MediaEnded /\ loopMode # "one"
          /\ (loopMode = "all" \/ isShuffled \/ currentIndex < LastIndex))
         => /\ currentIndex' \in 0..LastIndex
            /\ ~isShuffled => currentIndex' = IF currentIndex < LastIndex
                                              THEN currentIndex + 1 ELSE 0
            /\ isLoadingTrack'
            /\ playerState' = "loading"
            /\ audio'.src = playlist[currentIndex' + 1].url]_vars

\* the playlist has wrapped to index 0 and the load of chapter 0 is in flight
C10_Witness ==
    /\ polls["next"] = 1
    /\ isLoadingTrack
    /\ playerState = "loading"
    /\ loopMode = "all"
    /\ ~isShuffled
    /\ currentIndex = 0
    /\ audio.src = playlist[1].url

\* the 'playing' notification queued by a play() nobody waits on
LoopPlayingTask == [ev |-> "playing", who |-> {}, outcome |-> "resolved"]

\* C11: when a track ends with loopMode 'one', currentIndex is unchanged, no
\* load is started (the source, the load flag and the auto-play timers stay
\* as they were), the position is reset to 0 and the same track plays again.
C11_LoopOneReplays ==
    [][(MediaEnded /\ loopMode = "one")
         => /\ currentIndex' = currentIndex
            /\ ~isLoadingTrack'
            /\ polls' = polls
            /\ audio'.src = audio.src
            /\ audio'.ready = "enough"
            /\ audio'.time = 0
            /\ ~audio'.paused
            /\ audio'.tasks = <<LoopPlayingTask>>]_vars

\* the track has ended under loopMode 'one' and is playing again from 0
C11_Witness ==
    /\ loopMode = "one"
    /\ playerState = "paused"
    /\ ~isLoadingTrack
    /\ ~audio.paused
    /\ audio.time = 0
    /\ audio.tasks = <<LoopPlayingTask>>

\* C12: when a track ends with loopMode 'none', shuffle off and the last index
\* current, playerState becomes 'paused', currentIndex is unchanged and no
\* load is started: the source stays attached and paused at its end.
C12_PlaylistFinished ==
    [][(MediaEnded /\ loopMode = "none" /\ ~isShuffled /\ currentIndex = LastIndex)
         => /\ playerState' = "paused"
            /\ currentIndex' = currentIndex
            /\ ~isLoadingTrack'
            /\ polls' = polls
            /\ audio' = [audio EXCEPT !.paused = TRUE]]_vars

\* the last chapter has played to its end and the session is paused there
C12_Witness ==
    /\ loopMode = "none"
    /\ ~isShuffled
    /\ currentIndex = LastIndex
    /\ playerState = "paused"
    /\ ~isLoadingTrack
    /\ audio.paused
    /\ audio.time = Duration
    /\ audio.src = playlist[LastIndex + 1].url
    /\ audio.tasks = <<>>

\* the successor of a loop mode in the cycle none -> one -> all -> none
NextLoopMode(mode) ==
    CASE mode = "none" -> "one"
      [] mode = "one"  -> "all"
      [] mode = "all"  -> "none"

\* C13: loopMode is always one of none, one, all; a toggle moves it to its
\* successor in the cycle none -> one -> all -> none, and three consecutive
\* toggles return it to its starting value.
C13_LoopModeCycle ==
    /\ loopMode \in {"none", "one", "all"}
    /\ toggleLoop(Cur).loopMode = NextLoopMode(loopMode)
    /\ toggleLoop(toggleLoop(toggleLoop(Cur))).loopMode = loopMode

\* the loop button has been pressed twice
C13_Witness == pc = "ready" /\ loopMode = "all"

PlayFailureToasts == {"toast:playHint", "toast:playFailed"}
Panels == {"panel:multipleFailed", "panel:invalidChapter", "panel:initError"}

\* C15: a step in which a play attempt of playPause fails (its catch block
\* shows its toast) ends with playerState 'paused'; the failure is not counted
\* as a media error: consecutiveErrors and the blocking panel change only by a
\* media error event delivered in the same step.
C15_PlayFailureIsNotAnError ==
    [][(notice' \cap PlayFailureToasts # {})
         => /\ playerState' = "paused"
            /\ IF ErrorEvent
               THEN consecutiveErrors' = consecutiveErrors + 1
               ELSE /\ consecutiveErrors' = consecutiveErrors
                    /\ notice' \cap Panels = {}]_vars

\* after one media error the autoplay policy has rejected playPause's play()
C15_Witness ==
    /\ notice = {"toast:playHint"}
    /\ playerState = "paused"
    /\ consecutiveErrors = 1
    /\ audio.paused

\* C16: with no load in flight, selectTrack(i) for the current index has
\* exactly the effect of playPause; for another index it makes i current,
\* starts the load of chapter i and schedules one auto-play attempt.
C16_SelectTrackTogglesOrLoads ==
    (pc = "ready" /\ ~isLoadingTrack)
      => \A i \in Indexes :
           IF i = currentIndex
           THEN selectTrack(Cur, i) = playPause(Cur)
           ELSE LET s == selectTrack(Cur, i)
                IN /\ s.currentIndex = i
                   /\ s.isLoadingTrack
                   /\ s.playerState = "loading"
                   /\ s.audio.src = playlist[i + 1].url
                   /\ s.audio.ready = "nothing"
                   /\ s.polls = [polls EXCEPT !["select"] = @ + 1]
                   /\ s.resumeWait = resumeWait

\* another chapter has been selected: its load is in flight and the auto-play
\* attempt is waiting
C16_Witness ==
    /\ polls["select"] = 1
    /\ isLoadingTrack
    /\ playerState = "loading"
    /\ currentIndex = 1
    /\ audio.src = playlist[2].url
    /\ resumeWait = 0

\* the outstanding playWhenReady timers
Polling(p) == p["next"] + p["prev"] + p["select"]

\* C17: a nextTrack, prevTrack or selectTrack that starts a load (a load
\* started without a playPause call) schedules one auto-play timer, and timers
\* are scheduled by nothing else; while the load flag is set a firing timer
\* makes no play attempt and stays scheduled; with the flag clear a firing
\* timer calls play() and is retired; a timer is retired only with the flag
\* clear, one at a time, by its play attempt: the element is playing
\* afterwards unless play() was refused, which leaves it as it was.
C17_AutoPlayWaitsForLoad ==
    [][/\ (pc = "ready" /\ ~isLoadingTrack /\ isLoadingTrack' /\ resumeWait' = resumeWait)
            => Polling(polls') = Polling(polls) + 1
       /\ Polling(polls') > Polling(polls)
            => /\ Polling(polls') = Polling(polls) + 1
               /\ ~isLoadingTrack /\ isLoadingTrack'
       /\ isLoadingTrack
            => \A kind \in PollKinds, allowed \in BOOLEAN :
                 playWhenReady(Cur, kind, allowed) = Cur
       /\ ~isLoadingTrack
            => \A kind \in PollKinds, allowed \in BOOLEAN :
                 playWhenReady(Cur, kind, allowed)
                   = audioPlay([Cur EXCEPT !.polls[kind] = @ - 1], {kind}, allowed)
       /\ Polling(polls') < Polling(polls)
            => /\ Polling(polls') = Polling(polls) - 1
               /\ ~isLoadingTrack /\ ~isLoadingTrack'
               /\ ~audio'.paused \/ audio' = audio]_vars

\* the auto-play attempt of nextTrack has been made after its load completed
C17_Witness ==
    /\ Polling(polls) = 0
    /\ ~isLoadingTrack
    /\ ~audio.paused
    /\ audio.tasks = <<[ev |-> "playing", who |-> {"next"}, outcome |-> "resolved"]>>

\* a step that attaches a source: a load starts, or the source changes
SourceAttached ==
    \/ isLoadingTrack' /\ (~isLoadingTrack \/ pc = "new")
    \/ audio'.src # audio.src

PassingFiles == SelectSeq(manifest, isAudioFile)

\* C19: for every manifest with at least one file passing the audio filter,
\* initialize succeeds with a non-empty playlist whose chapters are the
\* passing files in manifest order, and currentIndex is the supplied start
\* index when it is in [0, playlist.length) and 0 otherwise.
C19_InitializeBuildsPlaylist ==
    (pc # "new" /\ PassingFiles # <<>>)
      => /\ pc = "ready"
         /\ playlist # <<>>
         /\ Len(playlist) = Len(PassingFiles)
         /\ \A i \in 1..Len(playlist) : playlist[i].url = <<"/">> \o PassingFiles[i].name
         /\ originalPlaylist = playlist
         /\ currentIndex = IF startIndex \in 0..(Len(playlist) - 1) THEN startIndex ELSE 0

\* a manifest with a filtered-out file has been opened at its second chapter
C19_Witness ==
    /\ pc = "ready"
    /\ Len(playlist) = 2
    /\ Len(manifest) > 2
    /\ startIndex = 1
    /\ currentIndex = 1
    /\ audio.src = playlist[2].url

\* the inclusion rule: an audio token in the format, no excluded extension,
\* and an original field that is absent or names mp3 or audio
AudioTokens == { <<"m","p","3">>, <<"o","g","g">>, <<"v","o","r","b","i","s">>,
                 <<"m","p","e","g">> }
OriginalTokens == { <<"m","p","3">>, <<"a","u","d","i","o">> }
Included(f) ==
    /\ \E token \in AudioTokens : includes(toLowerCase(f.format), token)
    /\ \A ext \in nonAudioExtensions : ~endsWith(toLowerCase(f.name), ext)
    /\ \/ f.original = <<>>
       \/ \E token \in OriginalTokens : includes(toLowerCase(f.original), token)

\* C20: the audio filter keeps a manifest file exactly when its format has an
\* audio token (case-insensitive), its name has no excluded extension and its
\* original field is absent or audio-like; it keeps the manifest order, and
\* filtering twice gives what filtering once gives; [cover.jpg, 01.mp3, ...,
\* checksums.md5] yields the chapters.
C20_AudioFilter ==
    /\ \A i \in 1..Len(manifest) : isAudioFile(manifest[i]) <=> Included(manifest[i])
    /\ audioFilter(manifest) = SelectSeq(manifest, Included)
    /\ audioFilter(audioFilter(manifest)) = audioFilter(manifest)
    /\ audioFilter(AudioManifest) = [i \in 1..NumChapters |-> ChapterFile(i)]

\* a manifest whose second file is dropped for its original field, between
\* two files that are kept, has been filtered into the playlist
C20_Witness ==
    /\ pc = "ready"
    /\ Len(manifest) = 3
    /\ manifest[2].original # <<>>
    /\ ~isAudioFile(manifest[2])
    /\ Len(playlist) = 2
    /\ playlist[1].url = <<"/">> \o manifest[1].name
    /\ playlist[2].url = <<"/">> \o manifest[3].name

\* C21: when the manifest has no audio file after filtering, or the metadata
\* fetch fails, initialize fails for good: the playlist stays empty, no load
\* and no play attempt is started, the media element is untouched and the
\* error panel replaces the player; a page that became ready has chapters.
C21_InitializeFailsTerminally ==
    /\ pc = "failed"
         => /\ playlist = <<>> /\ originalPlaylist = <<>>
            /\ currentIndex = 0
            /\ ~isLoadingTrack
            /\ playerState = "paused"
            /\ audio = NewAudio
            /\ resumeWait = 0
            /\ Polling(polls) = 0
            /\ notice = {"panel:initError"}
    /\ pc = "ready" => playlist # <<>> /\ "panel:initError" \notin notice

\* initialization has failed and the error panel is up
C21_Witness ==
    /\ pc = "failed"
    /\ notice = {"panel:initError"}
    /\ playlist = <<>>
    /\ audio = NewAudio

\* the identifiers of a recently-viewed list, front first
RECURSIVE identifiers(_)
identifiers(stored) ==
    IF stored = <<>> THEN <<>>
    ELSE <<Head(stored).identifier>> \o identifiers(Tail(stored))

\* the numbers of ids other than id, in order
RECURSIVE otherThan(_, _)
otherThan(ids, id) ==
    IF ids = <<>> THEN <<>>
    ELSE (IF Head(ids) # id THEN <<Head(ids)>> ELSE <<>>) \o otherThan(Tail(ids), id)

\* the first n elements of a sequence
firstN(seq, n) == SubSeq(seq, 1, IF Len(seq) < n THEN Len(seq) ELSE n)

\* C22: from an empty store, after any calls of updateRecentlyViewed the
\* recently-viewed list has at most 5 entries, no two with the same
\* identifier, and the identifier added last at the front; each call that
\* adds an identifier puts it in front of the other entries, which keep
\* their order, and drops the oldest entry when that makes six.
C22_RecentlyViewedList ==
    [][ (storeReady /\ storeReady' /\ lastAdded' # 0)
          => LET old == identifiers(getRecentlyViewed(localStorage))
                 new == identifiers(getRecentlyViewed(localStorage'))
             IN /\ Len(new) <= 5
                /\ \A i, j \in 1..Len(new) : new[i] = new[j] => i = j
                /\ new[1] = lastAdded'
                /\ new = <<lastAdded'>> \o firstN(otherThan(old, lastAdded'), 4)
      ]_vars

\* five identifiers were stored and a sixth was added: the oldest is gone
C22_Witness ==
    /\ storeReady
    /\ identifiers(getRecentlyViewed(localStorage)) = <<6, 5, 4, 3, 2>>
    /\ lastAdded = 6

\* the stored value is not the JSON text of an array
Malformed(ls) ==
    \/ ls.kind \in {"empty", "garbage"}
    \/ ls.kind = "json" /\ ls.value.type # "array"

\* C23: when the stored value is malformed (unparseable JSON or not an
\* array), constructing the store deletes the key, getRecentlyViewed then
\* returns an empty list, and a following updateRecentlyViewed yields a list
\* of one entry.
C23_MalformedValueIsDeleted ==
    [][ (~storeReady /\ storeReady' /\ Malformed(localStorage))
          => /\ localStorage' = Absent
             /\ getRecentlyViewed(localStorage') = <<>>
             /\ \A show \in Shows :
                  show.identifier # 0
                    => Len(getRecentlyViewed(updateRecentlyViewed(localStorage', show))) = 1
      ]_vars

\* the media element is paused without src attribute and the visualizer has
\* no frame requested and no audio context
Released(a, v) ==
    /\ a.paused
    /\ ~a.hasSrc
    /\ ~v.animationId
    /\ v.audioContext = "null"
    /\ ~v.isInitialized

\* C24: destroy is safe in every state: before initialization completed,
\* after a failed initialization, in a running session and after an earlier
\* destroy, the call does not throw and leaves the media source released and
\* the visualization stopped; a second call changes nothing.
C24_DestroyIsSafe ==
    [][ destroyCalls' > destroyCalls
          => /\ ~threw'
             /\ Released(audio', visualizer')
             /\ destroyCalls >= 1 => UNCHANGED <<sessionVars, visualizer>>
      ]_vars

\* destroy was called twice in a session that was playing with the
\* visualizer drawing
C24_Witness ==
    /\ destroyCalls = 2
    /\ pc = "ready"
    /\ webAudio = "ok"
    /\ visualizer.canvas
    /\ \E i \in 1..Len(audio.tasks) : audio.tasks[i].ev = "pause"

\* C25: volume and playback rate persist across track loads: after a call
\* that loads a track the media element's volume and playback rate are what
\* they were before the call, also when the player had been muted.
C25_VolumeAndRatePersist ==
    [][ (NextTrack \/ PrevTrack \/ SelectTrack)
          => /\ audio'.volume = audio.volume
             /\ audio'.playbackRate = audio.playbackRate
      ]_vars

\* C26: once the player page is initialized, after every chapter change made
\* by nextTrack, prevTrack, selectTrack or the automatic advance at track end
\* the URL's track parameter is currentIndex + 1.
C26_UrlFollowsChapter ==
    [][ (pc = "ready" /\ ~isLoadingTrack /\ isLoadingTrack')
          => urlTrack' = currentIndex' + 1
      ]_vars

\* the panel was drawn in this step
PanelDrawn == resultsDiv'.panel # <<>> /\ resultsDiv'.panel # resultsDiv.panel

\* C27: a search fetch is attempted at most 3 times; a success on any attempt
\* ends the call with no further attempt; the wait before attempt k + 1 is
\* k times the base delay; the error panel is drawn only when the 3rd
\* attempt of a call has failed.
C27_FetchWithRetry ==
    [][ /\ \A i \in 1..Len(calls') :
             /\ calls'[i].attempt \in 1..3
             /\ calls'[i].sleeping > 0
                  => /\ calls'[i].attempt < 3
                     /\ calls'[i].sleeping = calls'[i].attempt * RETRY_DELAY
        /\ FetchSucceeds
             => /\ Len(calls') = Len(calls) - 1
                /\ resultsDiv'.panel = <<>> \/ resultsDiv'.panel = resultsDiv.panel
        /\ PanelDrawn
             => /\ resultsDiv'.panel[1].attempt = 3
                /\ \E i \in 1..Len(calls) :
                     /\ calls[i] = resultsDiv'.panel[1]
                     /\ calls[i].sleeping = 0
                     /\ calls' = dropCall(calls, i)
      ]_vars

\* the panel is up for a call that failed three times
C27_Witness ==
    /\ resultsDiv.panel # <<>>
    /\ resultsDiv.panel[1].attempt = 3
    /\ calls = <<>>

\* no block occurs twice in a list of blocks
NoRepeat(blocks) ==
    \A i, j \in 1..Len(blocks) : blocks[i].params = blocks[j].params => i = j

\* C28: under any interleaving of sentinel-visibility events, explicit
\* searches and fetch completions, at most one append fetch is outstanding
\* and no result page is appended to the result list more than once.
C28_OneAppendNoDuplicates ==
    /\ Cardinality({ i \in 1..Len(calls) : calls[i].append }) <= 1
    /\ NoRepeat(currentResults)
    /\ NoRepeat(resultsDiv.cards)

\* the race alone: two append fetches are never outstanding together
C28_OneAppendOutstanding ==
    Cardinality({ i \in 1..Len(calls) : calls[i].append }) <= 1

\* the list of loaded documents alone never holds a page twice
C28_NoDuplicateLoaded == NoRepeat(currentResults)

\* the call started in this step
StartedCall == calls'[Len(calls')]

\* a failed search clears the flag and draws the panel with its retry button
FailureLeavesSessionUsable ==
    PanelDrawn => ~isLoadingMore' /\ resultsDiv'.panel # <<>>

FrenchSearch(call) ==
    /\ call.params.band = "French"
    /\ call.params.query = <<>>
    /\ call.params.yearFrom = <<>> /\ call.params.yearTo = <<>>
    /\ call.filters = <<>>

\* C30: a search of category French with empty free text, no year range and
\* no toggled filter issues a query that holds the collection filter and
\* language:(French) and no year clause, with page size 24, and page 1 for
\* the first page.
C30_FrenchQuery ==
    \A i \in 1..Len(calls) :
        FrenchSearch(calls[i])
          => LET url == callUrl(calls[i])
                 q == decodeURIComponent(url.q)
             IN /\ includes(q, CollectionFilter)
                /\ includes(q, FrenchClause)
                /\ ~includes(q, YearClauseStart)
                /\ url.rows = <<"2","4">>
                /\ calls[i].params.page = 1 => url.page = <<"1">>

\* the first page of the French category is being fetched
C30_Witness ==
    /\ calls # <<>>
    /\ FrenchSearch(calls[1])
    /\ calls[1].params.page = 1
    /\ form.query = <<" ">>

\* nextTrack at the last index, or prevTrack at index 0 with the position at
\* most 3 seconds, with loopMode 'none' and shuffle off
BoundaryCall ==
    /\ ~isShuffled
    /\ loopMode = "none"
    /\ \/ NextTrack /\ currentIndex = LastIndex
       \/ PrevTrack /\ currentIndex = 0 /\ audio.time <= 3

\* C31: nextTrack at the last index (and prevTrack at index 0 with the
\* position at most 3 seconds) with loopMode 'none' and shuffle off leaves
\* currentIndex, playerState, the attached media source and the playback
\* position unchanged.
C31_BoundaryCallIsNoOp ==
    [][BoundaryCall => /\ currentIndex' = currentIndex
                       /\ playerState' = playerState
                       /\ audio'.src = audio.src
                       /\ audio'.hasSrc = audio.hasSrc
                       /\ audio'.time = audio.time]_vars

\* C32: prevTrack called with the playback position greater than 3 seconds
\* restarts the current chapter: the position becomes 0 and the same
\* chapter's media source stays attached to the media element.
C32_PrevTrackRestartsChapter ==
    [][(PrevTrack /\ ~isLoadingTrack /\ audio.time > 3)
         => /\ audio'.time = 0
            /\ audio'.hasSrc
            /\ audio'.src = audio.src]_vars

\* a page of documents was added to the accumulated result list in this step
PageAppended ==
    /\ Len(currentResults') = Len(currentResults) + 1
    /\ SubSeq(currentResults', 1, Len(currentResults)) = currentResults

\* C33: after an append load completes, the rendered result list holds each
\* entry of the accumulated result list exactly once and in order.
C33_RenderedIsAccumulated ==
    [][PageAppended => resultsDiv'.cards = currentResults']_vars

\* C34: whenever the load-in-flight flag is set, playerState is 'loading'.
C34_LoadingStateWhileLoading ==
    isLoadingTrack => playerState = "loading"

\* ------------------------------------------------------------------------
\* Loads in flight: the session with the steps the event loop is bound to
\* take. A timer that was set fires (PlayWhenReady), a queued media element
\* task runs (DeliverTask) and playPause continues after its await
\* (PlayPauseResume). Whether the media element reaches canplay or error is
\* up to the network and the preload policy of the browser: the element may
\* wait for data without firing either, so those events carry no fairness.

LoadNext ==
    \/ Initialize
    \/ PlayPauseResume
    \/ NextTrack
    \/ PrevTrack
    \/ SelectTrack
    \/ PlayWhenReady
    \/ DeliverTask
    \/ MediaCanPlay
    \/ MediaLoadError

EventLoop ==
    /\ WF_vars(PlayWhenReady)
    /\ WF_vars(DeliverTask)
    /\ WF_vars(PlayPauseResume)

LoadSpec == Init /\ [][LoadNext]_vars /\ EventLoop

\* the media element settles every fetch: it reaches canplay or fires error
ElementSettles == WF_vars(MediaCanPlay \/ MediaLoadError)

\* C35: every load started by loadTrack eventually completes: the
\* load-in-flight flag is eventually cleared.
C35_LoadCompletes == isLoadingTrack ~> ~isLoadingTrack

\* what holds: the flag is cleared once the element settles the fetch
C35_LoadCompletesWhenElementSettles ==
    ElementSettles => (isLoadingTrack ~> ~isLoadingTrack)

\* ------------------------------------------------------------------------
\* The previous and next buttons. updateControls (storage.js:898-925) is the
\* only code that writes their disabled property; a step refreshes them when
\* its handler, or a promise continuation run after it, calls updateControls.

updateControls(s) ==
    [prev |-> s.currentIndex = 0 /\ ~s.isShuffled /\ s.loopMode = "none",
     next |-> s.currentIndex = Len(s.playlist) - 1 /\ ~s.isShuffled /\ s.loopMode = "none"]

\* a continuation of a play promise that calls updateControls: the one of
\* playPause always, the ones of the auto-play polls when play() resolved
reactionsUpdateControls(s0) ==
    \E i \in 1..Len(s0.micro) :
        s0.micro[i].outcome = "resolved" \/ "playPause" \in s0.micro[i].who

\* called: the handler itself called updateControls
ControlsCommit(s0, called) ==
    LET s == runReactions(s0)
    IN /\ Publish(s)
       /\ buttons' = IF called \/ loadTrackCalled(s) \/ reactionsUpdateControls(s0)
                     THEN updateControls(s) ELSE buttons
       /\ UNCHANGED <<urlTrack, wrapped, pageVars, storeVars, unloadVars, searchVars>>

CtlInitialize ==
    /\ pc = "new"
    /\ \E files \in Manifests, trackParam \in -1..(NumChapters + 1), fetched \in BOOLEAN :
         IF fetched /\ audioFilter(files) # <<>>
         THEN /\ pc' = "ready"
              /\ ControlsCommit(initialize(Cur, files, startTrackOf(trackParam)), TRUE)
              /\ manifestOrder' = buildPlaylist(files)
         ELSE /\ pc' = "failed"
              /\ ControlsCommit([Cur EXCEPT !.notice = {"panel:initError"}], FALSE)
              /\ manifestOrder' = manifestOrder
    /\ visualizer' = IF pc' = "ready" THEN visualizerInitialize(visualizer, webAudio)
                     ELSE visualizer
    /\ UNCHANGED errorRun

CtlPlayPauseResume ==
    /\ pc = "ready"
    /\ resumeWait > 0
    /\ \E allowed \in BOOLEAN :
         ControlsCommit(playPauseBody([Cur EXCEPT !.resumeWait = @ - 1], allowed),
                        playerState = "playing")
    /\ UNCHANGED <<pc, manifestOrder, errorRun, visualizer>>

CtlNextTrack ==
    /\ pc = "ready"
    /\ \E r \in Indexes : ControlsCommit(nextTrack(Cur, r), FALSE)
    /\ UNCHANGED <<pc, manifestOrder, errorRun, visualizer>>

CtlPrevTrack ==
    /\ pc = "ready"
    /\ \E r \in Indexes : ControlsCommit(prevTrack(Cur, r), FALSE)
    /\ UNCHANGED <<pc, manifestOrder, errorRun, visualizer>>

CtlToggleShuffle ==
    /\ pc = "ready"
    /\ \E rnd \in RandomDraws(Len(playlist)) : ControlsCommit(toggleShuffle(Cur, rnd), FALSE)
    /\ UNCHANGED <<pc, manifestOrder, errorRun, visualizer>>

CtlToggleLoop ==
    /\ pc = "ready"
    /\ ControlsCommit(toggleLoop(Cur), FALSE)
    /\ UNCHANGED <<pc, manifestOrder, errorRun, visualizer>>

CtlPlayWhenReady ==
    /\ pc = "ready"
    /\ \E kind \in PollKinds, allowed \in BOOLEAN :
         /\ polls[kind] > 0
         /\ ControlsCommit(playWhenReady(Cur, kind, allowed), FALSE)
    /\ UNCHANGED <<pc, manifestOrder, errorRun, visualizer>>

\* the playing, pause and waiting listeners call updateState
CtlDeliverTask ==
    /\ pc = "ready"
    /\ audio.tasks # <<>>
    /\ ControlsCommit(deliverTask(Cur),
                      Head(audio.tasks).ev \in {"playing", "pause", "waiting"})
    /\ errorRun' = IF Head(audio.tasks).ev = "playing" THEN 0 ELSE errorRun
    /\ UNCHANGED <<pc, manifestOrder, visualizer>>

CtlCanPlay ==
    /\ pc = "ready"
    /\ audio.tasks = <<>>
    /\ audio.hasSrc /\ audio.src # <<>>
    /\ audio.ready # "enough" /\ audio.error = "none"
    /\ ControlsCommit(canPlay(Cur), FALSE)
    /\ UNCHANGED <<pc, manifestOrder, errorRun, visualizer>>

ControlsNext ==
    \/ CtlInitialize
    \/ CtlPlayPauseResume
    \/ CtlNextTrack
    \/ CtlPrevTrack
    \/ CtlToggleShuffle
    \/ CtlToggleLoop
    \/ CtlPlayWhenReady
    \/ CtlDeliverTask
    \/ CtlCanPlay

ControlsSpec == Init /\ [][ControlsNext]_vars

\* C36: in every state of an initialized player the next button is disabled
\* exactly when currentIndex is the last index with shuffle off and loopMode
\* 'none', and the previous button exactly when currentIndex is 0 with
\* shuffle off and loopMode 'none'.
C36_ButtonsFollowState ==
    pc = "ready" => buttons = updateControls(Cur)

\* what holds: the buttons are as updateControls left them at its last call,
\* which the chapter loads keep up to date as long as shuffle and loop are
\* not toggled
C36_ButtonsFollowLoads ==
    [][(pc' = "ready" /\ isShuffled' = isShuffled /\ loopMode' = loopMode
          /\ (pc = "ready" => buttons = updateControls(Cur)))
         => buttons' = updateControls(Cur)']_vars

\* ------------------------------------------------------------------------
\* Opening a book: initialize with the store. The storage module constructs
\* its StorageManager when it is imported; initialize records the book after
\* the metadata has arrived and before it looks at the files.

\* the books the listener opens
VisitedShows == { show \in Shows : show.identifier <= MaxVisited }

\* initialize(identifier, startTrack) on a page whose store is constructed:
\* show is the identifier (0: none given) with the title of the metadata,
\* fetched tells whether the metadata request returned a valid answer
VisitInitialize ==
    /\ pc = "new"
    /\ storeReady
    /\ \E files \in Manifests, trackParam \in -1..(NumChapters + 1),
          fetched \in BOOLEAN, show \in VisitedShows :
         LET recorded == show.identifier # 0 /\ fetched
             succeeds == recorded /\ audioFilter(files) # <<>>
         IN /\ pc' = IF succeeds THEN "ready" ELSE "failed"
            /\ Publish(runReactions(
                 IF succeeds THEN initialize(Cur, files, startTrackOf(trackParam))
                 ELSE [Cur EXCEPT !.notice = {"panel:initError"}]))
            /\ manifestOrder' = IF succeeds THEN buildPlaylist(files) ELSE manifestOrder
            /\ localStorage' = IF recorded THEN updateRecentlyViewed(localStorage, show)
                               ELSE localStorage
            /\ lastAdded' = IF recorded THEN show.identifier ELSE lastAdded
    /\ visualizer' = IF pc' = "ready" THEN visualizerInitialize(visualizer, webAudio)
                     ELSE visualizer
    /\ UNCHANGED <<errorRun, storeReady, pageVars, unloadVars, urlVars, searchVars>>

\* the listener opens another book: a new document, with the stored value
\* of the last one
VisitAgain ==
    /\ pc # "new"
    /\ pc' = "new"
    /\ Publish([playlist |-> <<>>, originalPlaylist |-> <<>>, currentIndex |-> 0,
                isShuffled |-> FALSE, loopMode |-> "none", playerState |-> "paused",
                isLoadingTrack |-> FALSE, consecutiveErrors |-> 0, resumeWait |-> 0,
                polls |-> [k \in PollKinds |-> 0], audio |-> NewAudio,
                lastVolume |-> 100, playbackRate |-> 100, notice |-> {}])
    /\ manifestOrder' = <<>>
    /\ errorRun' = 0
    /\ visualizer' = NewVisualizer
    /\ storeReady' = FALSE
    /\ UNCHANGED <<localStorage, lastAdded, pageVars, unloadVars, urlVars, searchVars>>

VisitNext == StoreConstruct \/ VisitInitialize \/ VisitAgain

VisitSpec == StoreInit /\ [][VisitNext]_vars

\* C37: a failed initialization leaves the persisted recently-viewed list
\* unchanged: an item is recorded only when initialize succeeds.
C37_FailedInitializeKeepsList ==
    [][(pc = "new" /\ pc' = "failed") => localStorage' = localStorage]_vars

\* the search issued last has completed and its documents are shown, while an
\* older search with other parameters is still waiting for its response
LastSearchShown ==
    /\ lastSearchParams # <<>>
    /\ Len(calls) = 1
    /\ calls[1].params # lastSearchParams[1]
    /\ resultsDiv.panel = <<>> /\ ~resultsDiv.message
    /\ currentResults # <<>>
    /\ resultsDiv.cards = currentResults
    /\ \A i \in 1..Len(currentResults) :
         /\ currentResults[i].params.query = lastSearchParams[1].query
         /\ currentResults[i].params.band = lastSearchParams[1].band
    /\ currentResults[Len(currentResults)].params = lastSearchParams[1]

\* C38: when two searches overlap, after both have completed the result
\* list, total count and current page are those of the search issued last,
\* whatever order the responses arrive in.
C38_LastSearchWins ==
    [][(LastSearchShown /\ calls' = <<>>)
         => /\ currentResults' = currentResults
            /\ totalResults' = totalResults
            /\ resultsDiv' = resultsDiv
            /\ currentPage' = lastSearchParams[1].page]_vars

\* C39: the infinite-scroll in-flight flag is true only while an append fetch
\* is outstanding: when the sentinel handler sets it a page fetch has been
\* started, and it is cleared when that fetch settles.
C39_FlagMeansAppendOutstanding ==
    isLoadingMore => \E i \in 1..Len(calls) : calls[i].append

====
